---- MODULE Spec2Model ----
(***************************************************************************)
(* A model of the subscription pipeline of src/main.py: the classifier     *)
(* sub_check, the node validator url_check_valid, the semaphore-bounded    *)
(* batches (check_subscriptions, validate_existing_subscriptions,          *)
(* check_nodes), the deduplicator deduplicate_urls_by_domain and the       *)
(* orchestrator main.                                                      *)
(*                                                                         *)
(* Strings are sequences of characters (one-character strings). A          *)
(* character outside printable ASCII, tab, line feed and carriage return   *)
(* is written by its code point in hexadecimal, "U53EF" or "U000B".        *)
(***************************************************************************)
EXTENDS Integers, Sequences, FiniteSets, TLC

VARIABLES
    dedup,   \* the deduplicator on one list: input, outputs, position
    probe,   \* one call of sub_check or url_check_valid, and what the session answered
    pool,    \* one batch under its semaphore: how many probes are at each position
    run,     \* main: its position and its local variables
    disk,    \* config.yaml and the files main writes
    batch    \* the batch main is waiting for: semaphore, tasks, results so far

vars == <<dedup, probe, pool, run, disk, batch>>

\* what the actions on dedup leave alone
notDedup == <<probe, pool, run, disk, batch>>

\* what the actions on probe leave alone
notProbe == <<dedup, pool, run, disk, batch>>

\* what the actions on pool leave alone
notPool == <<dedup, probe, run, disk, batch>>

\* what the actions of main and of its batches leave alone
notRun == <<dedup, probe, pool>>

\* dedup and probe while another part of the program is looked at
DedupIdle == [pc |-> "idle", inp |-> <<>>, k |-> 0, out |-> <<>>, once |-> <<>>, twice |-> <<>>]

ProbeIdle == [task |-> [fn |-> "none", pc |-> "idle"], log |-> <<>>]

PoolIdle == [fn |-> "none"]

RunIdle == [pc |-> "idle"]

DiskIdle == [saves |-> 0]

BatchIdle ==
    [fn |-> "none", target |-> "", value |-> 0, tasks |-> <<>>, done |-> <<>>,
     consumed |-> <<>>, results |-> <<>>,
     valid_existing |-> [AirportSub |-> <<>>, ClashSub |-> <<>>, V2Sub |-> <<>>,
                         PlayList |-> <<>>]]

(***************************************************************************)
(* Characters and strings                                                  *)
(***************************************************************************)

\* The printable ASCII characters, from code point 32 to 126
Ascii == <<
    " ", "!", "\"", "#", "$", "%", "&", "'", "(", ")", "*", "+", ",", "-", ".", "/",
    "0", "1", "2", "3", "4", "5", "6", "7", "8", "9", ":", ";", "<", "=", ">", "?",
    "@", "A", "B", "C", "D", "E", "F", "G", "H", "I", "J", "K", "L", "M", "N", "O",
    "P", "Q", "R", "S", "T", "U", "V", "W", "X", "Y", "Z", "[", "\\", "]", "^", "_",
    "U0060", "a", "b", "c", "d", "e", "f", "g", "h", "i", "j", "k", "l", "m", "n", "o",
    "p", "q", "r", "s", "t", "u", "v", "w", "x", "y", "z", "{", "|", "}", "~"
>>

\* The hexadecimal digits, of the code-point names and of quote
HexDigits == <<"0", "1", "2", "3", "4", "5", "6", "7", "8", "9", "A", "B", "C", "D", "E", "F">>

RECURSIVE HexStr(_, _)
\* n in hexadecimal, on width digits at least
HexStr(n, width) ==
    IF n = 0 /\ width <= 0 THEN ""
    ELSE HexStr(n \div 16, width - 1) \o HexDigits[(n % 16) + 1]

\* chr(cp): the character of a code point
chr(cp) ==
    IF cp >= 32 /\ cp <= 126 THEN Ascii[cp - 31]
    ELSE IF cp = 9 THEN "\t"
    ELSE IF cp = 10 THEN "\n"
    ELSE IF cp = 13 THEN "\r"
    ELSE "U" \o HexStr(cp, 4)

\* The code points c with chr(c).isspace(): what str.strip() removes and what
\* \s matches
SpaceCodePoints ==
    (9..13) \cup (28..32) \cup {133, 160, 5760} \cup (8192..8202)
        \cup {8232, 8233, 8239, 8287, 12288}

\* The code points of the decimal digits of value 0 (category Nd of Unicode
\* 14.0): the nine code points after each are the digits 1 to 9
DecimalZeros == {
    48, 1632, 1776, 1984, 2406, 2534, 2662, 2790, 2918, 3046, 3174, 3302,
    3430, 3558, 3664, 3792, 3872, 4160, 4240, 6112, 6160, 6470, 6608, 6784,
    6800, 6992, 7088, 7232, 7248, 42528, 43216, 43264, 43472, 43504, 43600,
    44016, 65296, 66720, 68912, 69734, 69872, 69942, 70096, 70384, 70736,
    70864, 71248, 71360, 71472, 71904, 72016, 72784, 73040, 73120, 92768,
    92864, 93008, 120782, 120792, 120802, 120812, 120822, 123200, 123632,
    125264, 130032}

\* The code points of the characters \d matches
DecimalCodePoints == {z + v : z \in DecimalZeros, v \in 0..9}

\* The code points of the characters whose NFKC form holds one of / ? # @ :
NFKCDelimCodePoints ==
    {8263, 8264, 8265, 8448, 8449, 8453, 8454, 10868, 65043, 65046, 65109, 65110,
     65119, 65131, 65283, 65295, 65306, 65311, 65312}

\* The code points of the characters of the messages of main.py, and of the
\* three of str.lower() below
MessageCodePoints ==
    {304, 775, 8490, 20010, 21253, 21407, 21487, 21547, 22987, 27969, 28857,
     29992, 32622, 33410, 34892, 37197, 37327}

\* The code points tabled with their characters: those of the character classes
\* above and of Latin-1
KnownCodePoints ==
    (0..255) \cup SpaceCodePoints \cup DecimalCodePoints \cup NFKCDelimCodePoints
        \cup MessageCodePoints

CharOf == [cp \in KnownCodePoints |-> chr(cp)]

Inverse(f) == [y \in {f[x] : x \in DOMAIN f} |-> CHOOSE x \in DOMAIN f : f[x] = y]

CodePointOf == Inverse(CharOf)

\* The entry of c in a table of code points, or else the code point searched
LookUp(table, c) ==
    IF c \in DOMAIN table THEN table[c]
    ELSE CHOOSE cp \in 0..1114111 : chr(cp) = c

\* ord(c): the Unicode code point of a character (the order of Python's str
\* comparison)
CodePoint(c) == LookUp(CodePointOf, c)

\* The characters c with c.isascii()
AsciiChars == {chr(cp) : cp \in 0..127}

\* The surrogates U+D800 to U+DFFF: a str can hold one, UTF-8 cannot
Surrogates == {chr(cp) : cp \in 55296..57343}

\* s[i..] (Python s[i-1:])
Drop(s, n) == SubSeq(s, n + 1, Len(s))

\* s[:n]
Take(s, n) == SubSeq(s, 1, n)

\* s.startswith(p)
StartsWith(s, p) == Len(s) >= Len(p) /\ Take(s, Len(p)) = p

\* s.find(p): the first 1-based position of p in s, 0 when absent
Find(s, p) ==
    LET hits == {i \in 1..(Len(s) - Len(p) + 1) : SubSeq(s, i, i + Len(p) - 1) = p}
    IN  IF hits = {} THEN 0 ELSE CHOOSE i \in hits : \A j \in hits : i <= j

\* p in s
Contains(s, p) == Find(s, p) > 0

\* s.rfind(c) for a character c, 0 when absent
RFindChar(s, c) ==
    LET hits == {i \in 1..Len(s) : s[i] = c}
    IN  IF hits = {} THEN 0 ELSE CHOOSE i \in hits : \A j \in hits : i >= j

\* Python's str order: s < t
StrLess(s, t) ==
    \/ /\ Len(s) < Len(t)
       /\ Take(t, Len(s)) = s
    \/ \E i \in 1..Len(s) :
          /\ i <= Len(t)
          /\ Take(s, i - 1) = Take(t, i - 1)
          /\ CodePoint(s[i]) < CodePoint(t[i])

RECURSIVE SortSet(_)
\* sorted(S) for a set of strings
SortSet(S) ==
    IF S = {} THEN <<>>
    ELSE LET m == CHOOSE x \in S : \A y \in S \ {x} : StrLess(x, y)
         IN  <<m>> \o SortSet(S \ {m})

Range(s) == {s[i] : i \in 1..Len(s)}

RECURSIVE Split(_, _)
\* s.split(c) for a character c
Split(s, c) ==
    LET i == Find(s, <<c>>)
    IN  IF i = 0 THEN <<s>> ELSE <<Take(s, i - 1)>> \o Split(Drop(s, i), c)

RECURSIVE lstrip(_, _)
\* s.lstrip(chars) for a set of characters
lstrip(s, chars) == IF s # <<>> /\ s[1] \in chars THEN lstrip(Tail(s), chars) ELSE s

RECURSIVE rstrip(_, _)
\* s.rstrip(chars) for a set of characters
rstrip(s, chars) ==
    IF s # <<>> /\ s[Len(s)] \in chars THEN rstrip(Take(s, Len(s) - 1), chars) ELSE s

(***************************************************************************)
(* get_domain and deduplicate_urls_by_domain                               *)
(***************************************************************************)

\* A-Z and a-z
Letters == {Ascii[i] : i \in (34..59) \cup (66..91)}

Digits == {"0", "1", "2", "3", "4", "5", "6", "7", "8", "9"}

\* urllib.parse.scheme_chars
SchemeChars == Letters \cup Digits \cup {"+", "-", "."}

\* urllib.parse._WHATWG_C0_CONTROL_OR_SPACE
C0_CONTROL_OR_SPACE == {chr(cp) : cp \in 0..32}

\* urllib.parse._UNSAFE_URL_BYTES_TO_REMOVE
UNSAFE_URL_BYTES_TO_REMOVE == {"\t", "\r", "\n"}

\* ipaddress._BaseV4._parse_octet: whether it returns
parse_octet(octet_str) ==
    /\ octet_str # <<>>
    /\ Range(octet_str) \subseteq Digits
    /\ Len(octet_str) <= 3
    /\ octet_str = <<"0">> \/ octet_str[1] # "0"
    /\ \/ Len(octet_str) < 3
       \/ octet_str[1] = "1"
       \/ /\ octet_str[1] = "2"
          /\ \/ octet_str[2] \in {"0", "1", "2", "3", "4"}
             \/ octet_str[2] = "5" /\ octet_str[3] \in {"0", "1", "2", "3", "4", "5"}

\* ipaddress.IPv4Address(address): whether it returns
IPv4Address(address) ==
    /\ "/" \notin Range(address)
    /\ address # <<>>
    /\ LET octets == Split(address, ".")
       IN  /\ Len(octets) = 4
           /\ \A k \in 1..4 : parse_octet(octets[k])

\* ipaddress._BaseV6._HEX_DIGITS
HEX_DIGITS == Digits \cup {"a", "b", "c", "d", "e", "f", "A", "B", "C", "D", "E", "F"}

\* ipaddress._BaseV6._parse_hextet: whether it returns
parse_hextet(hextet_str) ==
    /\ Range(hextet_str) \subseteq HEX_DIGITS
    /\ Len(hextet_str) <= 4
    /\ hextet_str # <<>>

\* ipaddress._BaseV6._ip_int_from_string, from the count of the parts on:
\* whether it returns
hextets_parse(parts) ==
    LET n     == Len(parts)
        skips == {k \in 2..(n - 1) : parts[k] = <<>>}
    IN  /\ n <= 9
        /\ Cardinality(skips) <= 1
        /\ IF skips # {}
           THEN LET skip_index == (CHOOSE k \in skips : TRUE) - 1
                    parts_hi == IF parts[1] = <<>> THEN skip_index - 1 ELSE skip_index
                    parts_lo == IF parts[n] = <<>> THEN n - skip_index - 2
                                ELSE n - skip_index - 1
                IN  /\ parts[1] = <<>> => parts_hi = 0
                    /\ parts[n] = <<>> => parts_lo = 0
                    /\ 8 - (parts_hi + parts_lo) >= 1
                    /\ \A k \in 1..parts_hi : parse_hextet(parts[k])
                    /\ \A k \in (n - parts_lo + 1)..n : parse_hextet(parts[k])
           ELSE /\ n = 8
                /\ \A k \in 1..n : parse_hextet(parts[k])

\* ipaddress._BaseV6._ip_int_from_string, from ip_str.split(':') on: whether it
\* returns
parts_parse(split) ==
    LET last == split[Len(split)]
        v4   == "." \in Range(last)
    IN  /\ Len(split) >= 3
        /\ v4 => IPv4Address(last)
        \* a dotted suffix is replaced by its two hextets
        /\ hextets_parse(IF v4 THEN Take(split, Len(split) - 1) \o <<<<"0">>, <<"0">>>>
                         ELSE split)

\* ipaddress._BaseV6._ip_int_from_string: whether it returns
ip_int_from_string(ip_str) == ip_str # <<>> /\ parts_parse(Split(ip_str, ":"))

\* ipaddress.IPv6Address(address): whether it returns
IPv6Address(address) ==
    LET p == Find(address, <<"%">>)
        addr_str == IF p = 0 THEN address ELSE Take(address, p - 1)
        scope_id == IF p = 0 THEN <<>> ELSE Drop(address, p)
    IN  /\ "/" \notin Range(address)
        /\ p > 0 => scope_id # <<>> /\ "%" \notin Range(scope_id)
        /\ ip_int_from_string(addr_str)

\* urllib.parse._check_bracketed_host: whether it returns. A name that starts
\* with v has to match \Av[a-fA-F0-9]+\..+\Z, any other has to be an IPv6
\* address
check_bracketed_host(hostname) ==
    IF hostname # <<>> /\ hostname[1] = "v"
    THEN LET n == Len(lstrip(Tail(hostname), HEX_DIGITS))
             \* the characters after the hexadecimal digits
             k == Len(hostname) - n
         IN  /\ k >= 2
             /\ n >= 2
             /\ hostname[k + 1] = "."
    ELSE ~IPv4Address(hostname) /\ IPv6Address(hostname)

\* what is between the first [ of netloc and the first ] after it
bracketed_host(netloc) ==
    LET after == Drop(netloc, Find(netloc, <<"[">>))
        close == Find(after, <<"]">>)
    IN  IF close = 0 THEN after ELSE Take(after, close - 1)

\* urllib.parse._checknetloc: whether it returns
checknetloc(netloc) == \A cp \in NFKCDelimCodePoints : chr(cp) \notin Range(netloc)

\* The end of the scheme of url, its colon, or 0 when url has no scheme
scheme_end(url) ==
    LET i == Find(url, <<":">>)
    IN  IF /\ i > 1
           /\ url[1] \in Letters
           /\ \A k \in 1..(i - 1) : url[k] \in SchemeChars
        THEN i
        ELSE 0

\* urllib.parse._splitnetloc(url, 2)[0]
splitnetloc(url) ==
    LET ends == {k \in 3..Len(url) : url[k] \in {"/", "?", "#"}}
        delim == IF ends = {} THEN Len(url) + 1
                 ELSE CHOOSE k \in ends : \A j \in ends : k <= j
    IN  SubSeq(url, 3, delim - 1)

\* The checks of urlsplit on the network location
netloc_checked(netloc) ==
    IF ("[" \in Range(netloc)) # ("]" \in Range(netloc))
    THEN [ok |-> FALSE, netloc |-> <<>>]
    ELSE IF "[" \in Range(netloc) /\ ~check_bracketed_host(bracketed_host(netloc))
    THEN [ok |-> FALSE, netloc |-> <<>>]
    ELSE IF ~checknetloc(netloc)
    THEN [ok |-> FALSE, netloc |-> <<>>]
    ELSE [ok |-> TRUE, netloc |-> netloc]

\* urlsplit after the scheme
urlsplit_rest(url) ==
    netloc_checked(IF StartsWith(url, <<"/", "/">>) THEN splitnetloc(url) ELSE <<>>)

\* urlsplit of a url whose leading and unsafe characters are removed
urlsplit_scheme(url) == urlsplit_rest(Drop(url, scheme_end(url)))

\* urlsplit up to the network location: [ok |-> FALSE] when it raises
\* ValueError, else [ok |-> TRUE, netloc |-> ...]
urlparse_netloc(url) ==
    urlsplit_scheme(SelectSeq(lstrip(url, C0_CONTROL_OR_SPACE),
                              LAMBDA c : c \notin UNSAFE_URL_BYTES_TO_REMOVE))

\* netloc.split(':')[0]
BeforeColon(s) ==
    LET i == Find(s, <<":">>) IN IF i = 0 THEN s ELSE Take(s, i - 1)

WWW == <<"w", "w", "w", ".">>

get_domain(url) ==
    LET p == urlparse_netloc(url)
    IN  IF ~p.ok THEN url
        ELSE IF p.netloc = <<>> THEN url
        ELSE LET domain == BeforeColon(p.netloc)
             IN  IF StartsWith(domain, WWW) THEN Drop(domain, 4) ELSE domain

HTTP == <<"h", "t", "t", "p">>

\* url.split(' ')[-1] if ' ' in url and 'http' in url else url
cleaned_url(url) ==
    IF Contains(url, <<" ">>) /\ Contains(url, HTTP)
    THEN Drop(url, RFindChar(url, " "))
    ELSE url

\* The key under which deduplicate_urls_by_domain files an entry
dict_key(url) ==
    LET domain == get_domain(cleaned_url(url))
    IN  IF domain # <<>> THEN domain ELSE url

\* A dict assignment that keeps the first value of a key instead of the last
DictSetFirst(d, k, v) ==
    IF \E i \in 1..Len(d) : d[i][1] = k THEN d ELSE Append(d, <<k, v>>)

\* d[k] = v on a dict kept as the sequence of its items in insertion order
DictSet(d, k, v) ==
    IF \E i \in 1..Len(d) : d[i][1] = k
    THEN [i \in 1..Len(d) |-> IF d[i][1] = k THEN <<k, v>> ELSE d[i]]
    ELSE Append(d, <<k, v>>)

RECURSIVE dedup_loop(_, _)
\* the for loop of deduplicate_urls_by_domain, from the dict d over url_list
dedup_loop(d, url_list) ==
    IF url_list = <<>> THEN d
    ELSE dedup_loop(DictSet(d, dict_key(Head(url_list)), Head(url_list)), Tail(url_list))

\* A loop that starts one entry late
deduplicate_skipping_first(url_list) ==
    LET d == dedup_loop(<<>>, IF url_list = <<>> THEN <<>> ELSE Tail(url_list))
    IN  [i \in 1..Len(d) |-> d[i][2]]

deduplicate_urls_by_domain(url_list) ==
    LET d == dedup_loop(<<>>, url_list)
    IN  [i \in 1..Len(d) |-> d[i][2]]

\* sorted(list(set(a + b)))
merge_sorted(a, b) == SortSet(Range(a \o b))

\* One category of MergeAndDedupe
merge_and_dedupe(a, b) == deduplicate_urls_by_domain(merge_sorted(a, b))


(***************************************************************************)
(* Sample strings                                                          *)
(***************************************************************************)

\* "http://a.c/x"
U_ax == <<"h", "t", "t", "p", ":", "/", "/", "a", ".", "c", "/", "x">>

\* "https://www.a.c:80/y": the domain of U_ax, behind a scheme, www. and a port
U_way == <<"h", "t", "t", "p", "s", ":", "/", "/", "w", "w", "w", ".", "a", ".", "c",
           ":", "8", "0", "/", "y">>

\* "http://b.c"
U_b == <<"h", "t", "t", "p", ":", "/", "/", "b", ".", "c">>

\* "a.c": no scheme, no network location
S_ac == <<"a", ".", "c">>

\* "可用流量: 1.5 GB http://a.c/x": an annotated play-list entry
P_ax == <<"U53EF", "U7528", "U6D41", "U91CF", ":", " ", "1", ".", "5", " ", "G", "B", " ">> \o U_ax

\* "http://:80/p": a network location with an empty host
U_port == <<"h", "t", "t", "p", ":", "/", "/", ":", "8", "0", "/", "p">>

\* "http://www./b": a host that is empty once www. is removed
U_www == <<"h", "t", "t", "p", ":", "/", "/", "w", "w", "w", ".", "/", "b">>

\* "x y": a space, but no http
S_xy == <<"x", " ", "y">>

\* "http://[a/x": urlparse raises ValueError
U_br == <<"h", "t", "t", "p", ":", "/", "/", "[", "a", "/", "x">>

\* "http://[a]/x": a bracketed host that is no IP address, ValueError as well
U_bra == <<"h", "t", "t", "p", ":", "/", "/", "[", "a", "]", "/", "x">>

\* "http://[::1]:80/x": an IPv6 host, which netloc.split(':')[0] cuts to "["
U_v6 == <<"h", "t", "t", "p", ":", "/", "/", "[", ":", ":", "1", "]", ":", "8", "0", "/", "x">>

\* "\thttp://a.\tc/z": urlparse drops the tabs, the domain is that of U_ax
U_tab == <<"\t", "h", "t", "t", "p", ":", "/", "/", "a", ".", "\t", "c", "/", "z">>

\* "http://a.c/" and the surrogate U+D800
U_sur == <<"h", "t", "t", "p", ":", "/", "/", "a", ".", "c", "/", chr(55296)>>

DedupEntries == {U_ax, U_way, U_b, S_ac, P_ax, U_port, U_www, S_xy, U_br, U_bra, U_v6, U_tab}

\* The longest list handed to the deduplicator
MaxLen == 3

SeqsUpTo(S, n) == UNION {[1..k -> S] : k \in 0..n}

(***************************************************************************)
(* sub_check: the classification of a 200 response                         *)
(***************************************************************************)

\* The characters c with c.isspace(): str.strip() removes these from both
\* ends, and \s matches them
Whitespace == {chr(cp) : cp \in SpaceCodePoints}

\* s.strip()
Strip(s) == rstrip(lstrip(s, Whitespace), Whitespace)

\* s.replace(c, '') for a character c
RemoveChar(s, c) == SelectSeq(s, LAMBDA x : x # c)

RECURSIVE CountSub(_, _)
\* s.count(p): the occurrences of p in s that do not overlap
CountSub(s, p) ==
    LET i == Find(s, p)
    IN  IF i = 0 THEN 0 ELSE 1 + CountSub(Drop(s, i + Len(p) - 1), p)

\* The characters \d matches: the decimal digits of every script
DecimalDigits == {chr(cp) : cp \in DecimalCodePoints}

\* int(c) for a decimal digit
DigitVal(c) ==
    LET cp == CodePoint(c)
    IN  cp - (CHOOSE z \in DecimalZeros : z <= cp /\ cp <= z + 9)

\* sys.get_int_max_str_digits() of CPython 3.11
INT_MAX_STR_DIGITS == 4300

\* int(s) for a string of digits raises ValueError: s has more digits than
\* the limit, leading zeros counted
int_raises(s) == Len(s) > INT_MAX_STR_DIGITS

\* An int of any size is the sequence of its decimal digits, the first one
\* not 0: <<>> is 0. This drops the leading zeros of a sequence of digits.
StripZeros(d) ==
    IF \A i \in 1..Len(d) : d[i] = 0 THEN <<>>
    ELSE SubSeq(d, CHOOSE i \in 1..Len(d) : d[i] # 0 /\ \A j \in 1..(i - 1) : d[j] = 0, Len(d))

\* int(s) for a string of at most INT_MAX_STR_DIGITS digits
int(s) == StripZeros([i \in 1..Len(s) |-> DigitVal(s[i])])

\* the k-th smallest of a set of numbers
Kth(S, k) == CHOOSE x \in S : Cardinality({y \in S : y < x}) = k - 1

\* re.findall(r'\d+', s): the maximal runs of decimal digits of s, in order
findall_digits(s) ==
    LET starts == {i \in 1..Len(s) :
                      s[i] \in DecimalDigits /\ (i = 1 \/ s[i - 1] \notin DecimalDigits)}
        ends   == {j \in 1..Len(s) :
                      s[j] \in DecimalDigits /\ (j = Len(s) \/ s[j + 1] \notin DecimalDigits)}
    IN  [k \in 1..Cardinality(starts) |-> SubSeq(s, Kth(starts, k), Kth(ends, k))]

RECURSIVE IntToStr(_)
\* str(n) for n >= 0
IntToStr(n) ==
    IF n < 10 THEN <<Ascii[17 + n]>> ELSE IntToStr(n \div 10) \o <<Ascii[17 + (n % 10)]>>

\* a < b
BigLess(a, b) ==
    \/ Len(a) < Len(b)
    \/ /\ Len(a) = Len(b)
       /\ \E i \in 1..Len(a) : a[i] < b[i] /\ \A j \in 1..(i - 1) : a[j] = b[j]

\* the digit of a that stands in the i-th of n places, zeros before a
Place(a, n, i) == IF i > n - Len(a) THEN a[i - (n - Len(a))] ELSE 0

RECURSIVE Carry(_, _)
\* The digits of the number whose places hold the amounts f, with c carried
\* into the last place: a place keeps the last digit of what it gets and
\* carries the rest, -1 when it got less than 0. The low half is worked out
\* before the high half that takes its carry in: the test of lo.c sees to that
Carry(f, c) ==
    IF Len(f) = 0 THEN [d |-> <<>>, c |-> c]
    ELSE IF Len(f) = 1
    THEN LET t == f[1] + c
         IN  [d |-> <<(t + 10) % 10>>, c |-> IF t < 0 THEN -1 ELSE t \div 10]
    ELSE LET h  == Len(f) \div 2
             lo == Carry(SubSeq(f, h + 1, Len(f)), c)
             hi == Carry(SubSeq(f, 1, h), lo.c)
         IN  IF lo.c >= -1 THEN [d |-> hi.d \o lo.d, c |-> hi.c] ELSE lo

\* a + b
BigAdd(a, b) ==
    LET n == IF Len(a) > Len(b) THEN Len(a) ELSE Len(b)
        p == Carry([i \in 1..n |-> Place(a, n, i) + Place(b, n, i)], 0)
    IN  StripZeros(<<p.c>> \o p.d)

\* a - b, for a >= b
BigSub(a, b) ==
    StripZeros(Carry([i \in 1..Len(a) |-> a[i] - Place(b, Len(a), i)], 0).d)

RECURSIVE BigOf(_)
\* the int n, for 0 <= n < 2 ** 31
BigOf(n) == IF n = 0 THEN <<>> ELSE Append(BigOf(n \div 10), n % 10)

\* a * k, for 0 < k <= 2 ** 27
MulSmall(a, k) ==
    LET p == Carry([i \in 1..Len(a) |-> a[i] * k], 0) IN StripZeros(BigOf(p.c) \o p.d)

RECURSIVE DivDigits(_, _, _)
\* r * 10 ** Len(a) + a divided by k, for r < k: the quotient in Len(a)
\* digits, and the remainder
DivDigits(a, k, r) ==
    IF Len(a) = 1
    THEN [q |-> <<(r * 10 + a[1]) \div k>>, r |-> (r * 10 + a[1]) % k]
    ELSE LET h  == Len(a) \div 2
             hi == DivDigits(SubSeq(a, 1, h), k, r)
             lo == DivDigits(SubSeq(a, h + 1, Len(a)), k, hi.r)
         IN  [q |-> hi.q \o lo.q, r |-> lo.r]

\* divmod(a, k), for 0 < k <= 2 ** 27
DivSmall(a, k) ==
    IF a = <<>> THEN [q |-> <<>>, r |-> 0]
    ELSE LET p == DivDigits(a, k, 0) IN [q |-> StripZeros(p.q), r |-> p.r]

RECURSIVE MulPow2(_, _)
\* a * 2 ** e
MulPow2(a, e) ==
    IF a = <<>> THEN <<>>
    ELSE IF e <= 27 THEN MulSmall(a, 2 ^ e)
    ELSE MulPow2(MulSmall(a, 2 ^ 27), e - 27)

\* the digits of the significand of a float
DBL_MANT_DIG == 53

\* the largest float is below 2 ** DBL_MAX_EXP
DBL_MAX_EXP == 1024

\* 1024 ** 3 is 2 ** GiBits
GiBits == 30

\* divmod(p1.q * k1 + p1.r, k1 * k2) from p1 = divmod(n, k1), for
\* k1 * k2 <= 2 ** 30
DivAgain(p1, k1, k2) ==
    LET p2 == DivSmall(p1.q, k2) IN [q |-> p2.q, r |-> p2.r * k1 + p1.r]

\* divmod(n, 2 ** e), for e <= 30
DivPow2(n, e) ==
    DivAgain(DivSmall(n, 2 ^ (e \div 2)), 2 ^ (e \div 2), 2 ^ (e - e \div 2))

\* the e with 2 ** (DBL_MANT_DIG + e) <= n < 2 ** (DBL_MANT_DIG + 1 + e),
\* 0 for a smaller n; for n of 25 digits at most
ShiftOf(n) ==
    CHOOSE e \in 0..30 : /\ BigLess(n, MulPow2(<<1>>, DBL_MANT_DIG + 1 + e))
                         /\ (e = 0 \/ ~BigLess(n, MulPow2(<<1>>, DBL_MANT_DIG + e)))

\* p = divmod(n, 2 ** e) as the significand of n * 2 ** s
Shifted(p, s, sticky) == [m |-> p.q, s |-> s, sticky |-> sticky \/ p.r # 0]

\* the significand of n * 2 ** s that takes e more digits off n
SignificandAt(n, s, sticky, e) == Shifted(DivPow2(n, e), s + e, sticky)

RECURSIVE Significand(_, _, _)
\* m, s and sticky with n = (m + f) * 2 ** s, m < 2 ** (DBL_MANT_DIG + 1),
\* 0 <= f < 1 and sticky telling whether f > 0; m >= 2 ** DBL_MANT_DIG unless
\* s = 0. The call is given n / 2 ** s in whole and whether a fraction is left
Significand(n, s, sticky) ==
    IF Len(n) > 25
    THEN LET p == DivSmall(n, 2 ^ 27) IN Significand(p.q, s + 27, sticky \/ p.r # 0)
    ELSE SignificandAt(n, s, sticky, ShiftOf(n))

\* the significand m of DBL_MANT_DIG digits, or 2 ** DBL_MANT_DIG, times
\* 2 ** s as a float
Normalised(m, s) ==
    IF m = MulPow2(<<1>>, DBL_MANT_DIG) THEN [m |-> DivSmall(m, 2).q, s |-> s + 1]
    ELSE [m |-> m, s |-> s]

\* p = divmod(m, 2) of a significand of DBL_MANT_DIG + 1 digits, rounded to
\* DBL_MANT_DIG digits: up from above the half, and from the half to the even
RoundHalfEven(p, sticky, s) ==
    Normalised(IF p.r = 1 /\ (sticky \/ p.q[Len(p.q)] % 2 = 1) THEN BigAdd(p.q, <<1>>)
               ELSE p.q, s + 1)

\* the significand c rounded to a float
Rounded(c) ==
    IF BigLess(c.m, MulPow2(<<1>>, DBL_MANT_DIG)) THEN [m |-> c.m, s |-> c.s]
    ELSE RoundHalfEven(DivSmall(c.m, 2), c.sticky, c.s)

\* n rounded to DBL_MANT_DIG significant bits, a tie going to the even
\* significand: m * 2 ** s, with 2 ** 52 <= m < 2 ** 53 unless s = 0. It is
\* float(n), and float(n) / 2 ** 30 is the quotient n / 1024 ** 3 correctly
\* rounded, since a division by a power of two is exact
RoundToFloat(n) == Rounded(Significand(n, 0, FALSE))

\* 2 ** (DBL_MAX_EXP + 30): the ints from it on, divided by 1024 ** 3, are
\* beyond every float
BeyondFloats == MulPow2(<<1>>, DBL_MAX_EXP + GiBits)

\* n / (1024 ** 3) raises OverflowError, for n > 0: the quotient rounds to
\* 2 ** DBL_MAX_EXP or more. An int of more digits than BeyondFloats is
\* beyond it without rounding, one of fewer digits rounds to less
true_divide_raises(n) ==
    \/ Len(n) > Len(BeyondFloats)
    \/ /\ Len(n) = Len(BeyondFloats)
       /\ RoundToFloat(n).s + DBL_MANT_DIG > DBL_MAX_EXP + GiBits

\* the decimal digits as characters
DigitChars(d) == [i \in 1..Len(d) |-> Ascii[17 + d[i]]]

\* the digits without their trailing zeros
StripTrailingZeros(d) ==
    IF \A i \in 1..Len(d) : d[i] = 0 THEN <<>>
    ELSE SubSeq(d, 1, CHOOSE i \in 1..Len(d) : d[i] # 0 /\ \A j \in (i + 1)..Len(d) : d[j] = 0)

\* the digits after the point in the repr of a float, given without their
\* trailing zeros
Fraction(frac) == IF frac = <<>> THEN <<"0">> ELSE DigitChars(frac)

\* the digits all with the point after the first decpt of them: "1.5", "2.0"
FixedPoint(all, decpt) ==
    DigitChars(SubSeq(all, 1, decpt)) \o <<".">>
        \o Fraction(StripTrailingZeros(SubSeq(all, decpt + 1, Len(all))))

\* repr of the float h / 100, h in digits: "1.5", "0.07", "2.0"
FloatStr(h) == FixedPoint([i \in 1..(3 - Len(h)) |-> 0] \o h,
                          (IF Len(h) < 3 THEN 3 ELSE Len(h)) - 2)

\* p = divmod(100 * x * 2 ** 30, 2 ** 30) to the nearest whole number of
\* hundredths, a tie to the even one, as repr writes it
Hundredths(p) ==
    FloatStr(IF \/ p.r > 2 ^ 29
                \/ p.r = 2 ^ 29 /\ p.q # <<>> /\ p.q[Len(p.q)] % 2 = 1
             THEN BigAdd(p.q, <<1>>) ELSE p.q)

\* repr(round(x, 2)) for the float x = f.m * 2 ** f.s / 2 ** 30 below
\* 2 ** 46: x in hundredths, the nearest whole number of them and a tie to
\* the even one; the float next to that many hundredths is written back as
\* that many hundredths, there being at most 16 digits
ReprHundredths(f) ==
    Hundredths(DivPow2(MulSmall(f.m, 2 ^ f.s) \o (IF f.m = <<>> THEN <<>> ELSE <<0, 0>>),
                       GiBits))

\* x * 10 ** 6 for the float x = f.m * 2 ** f.s / 2 ** 30 of 2 ** 46 or more
Millionths(f) == MulPow2(MulSmall(f.m, 15625), f.s - 24)

\* 4 * 10 ** 6 times the distance from x to the middle between x and the next
\* float above it (up) or below it
HalfGap(f, up) ==
    MulPow2(BigOf(IF ~up /\ f.m = MulPow2(<<1>>, DBL_MANT_DIG - 1) THEN 15625 ELSE 31250),
            f.s - 24)

\* what the digits of Z after the k-th stand for, and what is missing from it
\* to one unit of the k-th digit
Below(Z, k) == StripZeros(SubSeq(Z, k + 1, Len(Z)))
Above(Z, k) == BigSub(<<1>> \o [i \in 1..(Len(Z) - k) |-> 0], Below(Z, k))

\* d4 is less than half, or it is half and the float is the even one
Nearer(d4, half, even) == BigLess(d4, half) \/ (d4 = half /\ even)

\* a decimal number at distance dist from x (in millionths) reads back as x:
\* it is nearer to x than the middle, or it is the middle and x is the even
\* one of its two neighbours
ReadsBack(f, dist, up) == Nearer(MulSmall(dist, 4), HalfGap(f, up), f.m[Len(f.m)] % 2 = 0)

RECURSIVE ShortestDigits(_, _, _)
\* the least number of significant digits, k or more, in which a decimal
\* number reads back as x
ShortestDigits(f, Z, k) ==
    IF ReadsBack(f, Below(Z, k), FALSE) \/ ReadsBack(f, Above(Z, k), TRUE) THEN k
    ELSE ShortestDigits(f, Z, k + 1)

\* the first k digits of the decimal number of k digits nearest to x: those of
\* Z, lo below x, or one more, hi above x; the even one when both are as near
NearestHead(f, Z, k, lo, hi) ==
    IF /\ ReadsBack(f, lo, FALSE)
       /\ \/ ~ReadsBack(f, hi, TRUE)
          \/ BigLess(lo, hi)
          \/ lo = hi /\ Z[k] % 2 = 0
    THEN SubSeq(Z, 1, k)
    ELSE BigAdd(SubSeq(Z, 1, k), <<1>>)

\* the digits sig times 10 ** e in exponent form: "9.313225746154785e+17"
ExponentForm(sig, e) ==
    DigitChars(SubSeq(sig, 1, 1))
        \o (IF Len(sig) > 1 THEN <<".">> \o DigitChars(SubSeq(sig, 2, Len(sig))) ELSE <<>>)
        \o <<"e", "+">> \o DigitChars(BigOf(e))

\* repr of the float of the digits head and so many zeros, in millionths: in
\* exponent form from 10 ** 16 on
FloatRepr(head, zeros) ==
    IF Len(head) + zeros - 6 > 16
    THEN ExponentForm(StripTrailingZeros(head), Len(head) + zeros - 7)
    ELSE FixedPoint(head \o [i \in 1..zeros |-> 0], Len(head) + zeros - 6)

\* repr of x, Z millionths, in k significant digits
ReprDigits(f, Z, k) == FloatRepr(NearestHead(f, Z, k, Below(Z, k), Above(Z, k)), Len(Z) - k)

\* repr of x, Z millionths
ReprMillionths(f, Z) == ReprDigits(f, Z, ShortestDigits(f, Z, 1))

\* repr(x) for the float x = f.m * 2 ** f.s / 2 ** 30 of 2 ** 46 or more, which
\* round(x, 2) leaves as it is: the shortest decimal number that reads back as
\* x, the nearest to x of that length, the even one when two are as near
ReprShortest(f) == ReprMillionths(f, Millionths(f))

\* f"可用流量: {round(unused, 2)} GB" for the float unused
unused_info(unused) ==
    <<"U53EF", "U7528", "U6D41", "U91CF", ":", " ">>
        \o (IF unused.s < 24 THEN ReprHundredths(unused) ELSE ReprShortest(unused))
        \o <<" ", "G", "B">>

\* f"可用流量: {round(unused, 2)} GB" for unused = n / (1024 ** 3), n > 0
airport_info(n) == unused_info(RoundToFloat(n))

\* f"包含 {n} 个节点"
nodes_info(n) == <<"U5305", "U542B", " ">> \o IntToStr(n) \o <<" ", "U4E2A", "U8282", "U70B9">>

\* the position of an ASCII character in the base64 alphabet, 64 when it is
\* not in it
B64Val(c) ==
    LET cp == CodePoint(c)
    IN  IF cp >= 65 /\ cp <= 90 THEN cp - 65
        ELSE IF cp >= 97 /\ cp <= 122 THEN cp - 71
        ELSE IF cp >= 48 /\ cp <= 57 THEN cp + 4
        ELSE IF c = "+" THEN 62
        ELSE IF c = "/" THEN 63
        ELSE 64

RECURSIVE a2b_loop(_, _, _, _, _)
\* binascii.a2b_base64 without strict mode: the loop over the characters
a2b_loop(s, quad_pos, leftchar, pads, bin) ==
    IF s = <<>>
    THEN [ok |-> quad_pos = 0, bytes |-> bin]
    ELSE IF s[1] = "="
    THEN IF quad_pos >= 2 /\ quad_pos + pads + 1 >= 4
         THEN [ok |-> TRUE, bytes |-> bin]
         ELSE a2b_loop(Tail(s), quad_pos, leftchar,
                       IF quad_pos >= 2 THEN pads + 1 ELSE pads, bin)
    ELSE LET v == B64Val(s[1])
         IN  IF v >= 64 THEN a2b_loop(Tail(s), quad_pos, leftchar, pads, bin)
             ELSE CASE quad_pos = 0 -> a2b_loop(Tail(s), 1, v, 0, bin)
                    [] quad_pos = 1 ->
                         a2b_loop(Tail(s), 2, v % 16, 0, Append(bin, leftchar * 4 + (v \div 16)))
                    [] quad_pos = 2 ->
                         a2b_loop(Tail(s), 3, v % 4, 0, Append(bin, leftchar * 16 + (v \div 4)))
                    [] quad_pos = 3 ->
                         a2b_loop(Tail(s), 0, 0, 0, Append(bin, leftchar * 64 + v))

\* base64.b64decode(s): [ok |-> FALSE] when it raises, ValueError for a string
\* with a character outside ASCII, binascii.Error for a wrong padding
b64decode(s) ==
    IF Range(s) \subseteq AsciiChars
    THEN a2b_loop(s, 0, 0, 0, <<>>)
    ELSE [ok |-> FALSE, bytes |-> <<>>]

\* bytes b with lo <= b[i] <= hi
InRange(b, i, lo, hi) == i <= Len(b) /\ b[i] >= lo /\ b[i] <= hi

\* a continuation byte at b[i]
Cont(b, i) == InRange(b, i, 128, 191)

\* The number of bytes the UTF-8 decoder consumes at the head of b, and
\* whether they form a character: an ill-formed sequence is skipped up to its
\* longest well-formed prefix (errors='ignore')
Utf8Step(b) ==
    LET b1 == b[1]
    IN  IF b1 < 128 THEN [n |-> 1, char |-> TRUE]
        ELSE IF b1 >= 194 /\ b1 <= 223
        THEN IF Cont(b, 2) THEN [n |-> 2, char |-> TRUE] ELSE [n |-> 1, char |-> FALSE]
        ELSE IF b1 >= 224 /\ b1 <= 239
        THEN LET ok2 == IF b1 = 224 THEN InRange(b, 2, 160, 191)
                        ELSE IF b1 = 237 THEN InRange(b, 2, 128, 159)
                        ELSE Cont(b, 2)
             IN  IF ~ok2 THEN [n |-> 1, char |-> FALSE]
                 ELSE IF Cont(b, 3) THEN [n |-> 3, char |-> TRUE]
                 ELSE [n |-> 2, char |-> FALSE]
        ELSE IF b1 >= 240 /\ b1 <= 244
        THEN LET ok2 == IF b1 = 240 THEN InRange(b, 2, 144, 191)
                        ELSE IF b1 = 244 THEN InRange(b, 2, 128, 143)
                        ELSE Cont(b, 2)
             IN  IF ~ok2 THEN [n |-> 1, char |-> FALSE]
                 ELSE IF ~Cont(b, 3) THEN [n |-> 2, char |-> FALSE]
                 ELSE IF Cont(b, 4) THEN [n |-> 4, char |-> TRUE]
                 ELSE [n |-> 3, char |-> FALSE]
        ELSE [n |-> 1, char |-> FALSE]

\* The code point of the well-formed sequence of n bytes at the head of b
Utf8CodePoint(b, n) ==
    CASE n = 1 -> b[1]
      [] n = 2 -> (b[1] - 192) * 64 + (b[2] - 128)
      [] n = 3 -> (b[1] - 224) * 4096 + (b[2] - 128) * 64 + (b[3] - 128)
      [] n = 4 -> (b[1] - 240) * 262144 + (b[2] - 128) * 4096 + (b[3] - 128) * 64
                     + (b[4] - 128)

RECURSIVE utf8_ignore(_)
\* bytes.decode('utf-8', errors='ignore')
utf8_ignore(b) ==
    IF b = <<>> THEN <<>>
    ELSE LET st == Utf8Step(b)
         IN  (IF st.char THEN <<chr(Utf8CodePoint(b, st.n))>> ELSE <<>>)
             \o utf8_ignore(Drop(b, st.n))

\* c.lower() for the characters whose lower case holds an ASCII character: the
\* ASCII capitals, the Kelvin sign and the dotted capital I
LowerChar(c) ==
    IF c \in Letters /\ CodePoint(c) <= 90 THEN <<Ascii[CodePoint(c) + 1]>>
    ELSE IF c = "U212A" THEN <<"k">>
    ELSE IF c = "U0130" THEN <<"i", "U0307">>
    ELSE <<c>>

RECURSIVE Lower(_)
\* str.lower(), as far as ASCII text can be looked for in it: a character whose
\* lower case holds no ASCII character is left as it is
Lower(s) == IF s = <<>> THEN <<>> ELSE LowerChar(Head(s)) \o Lower(Tail(s))


\* "ss://"
SS == <<"s", "s", ":", "/", "/">>

\* "ssr://"
SSR == <<"s", "s", "r", ":", "/", "/">>

\* "vmess://"
VMESS == <<"v", "m", "e", "s", "s", ":", "/", "/">>

\* "trojan://"
TROJAN == <<"t", "r", "o", "j", "a", "n", ":", "/", "/">>

\* "vless://"
VLESS == <<"v", "l", "e", "s", "s", ":", "/", "/">>

\* "server"
KW_SERVER == <<"s", "e", "r", "v", "e", "r">>

\* "port"
KW_PORT == <<"p", "o", "r", "t">>

\* "password"
KW_PASSWORD == <<"p", "a", "s", "s", "w", "o", "r", "d">>

\* "method"
KW_METHOD == <<"m", "e", "t", "h", "o", "d">>

\* "host"
KW_HOST == <<"h", "o", "s", "t">>

\* "path"
KW_PATH == <<"p", "a", "t", "h">>

\* "proxies:"
PROXIES == <<"p", "r", "o", "x", "i", "e", "s", ":">>

\* "name:"
NAME == <<"n", "a", "m", "e", ":">>

\* "server:"
SERVER == <<"s", "e", "r", "v", "e", "r", ":">>

\* "- name:"
DASHNAME == <<"-", " ", "n", "a", "m", "e", ":">>

\* "(base64)"
B64TAG == <<"(", "b", "a", "s", "e", "6", "4", ")">>

\* return None
None == [url |-> <<>>, type |-> "None", info |-> <<>>]

\* what stands for a ValueError raised in lines 108 to 197, in the place of
\* the result
ValueError == [url |-> <<>>, type |-> "ValueError", info |-> <<>>]

\* what stands for the OverflowError raised in line 124, in the place of the
\* result
OverflowError == [url |-> <<>>, type |-> "OverflowError", info |-> <<>>]

\* protocols = ['ss://', 'ssr://', 'vmess://', 'trojan://', 'vless://']
protocols == <<SS, SSR, VMESS, TROJAN, VLESS>>

\* config_keywords = ['server', 'port', 'password', 'method', 'host', 'path']
config_keywords == {KW_SERVER, KW_PORT, KW_PASSWORD, KW_METHOD, KW_HOST, KW_PATH}

\* sum(text.count(proto) for proto in found_protocols)
RECURSIVE count_protocols(_, _)
count_protocols(text, protos) ==
    IF protos = <<>> THEN 0
    ELSE CountSub(text, Head(protos)) + count_protocols(text, Tail(protos))

\* the airport check of sub_check, lines 116 to 128: the verdict, None when
\* the header does not qualify, ValueError when one of nums[:3] is too long
\* for int, OverflowError when the remaining quota is too large, above or
\* below 0, for the division of line 124
check_airport(url, sub_info) ==
    IF sub_info = <<>> THEN None
    ELSE LET nums == findall_digits(sub_info)
         IN  IF Len(nums) < 3 THEN None
             ELSE IF \E k \in 1..3 : int_raises(nums[k]) THEN ValueError
             ELSE LET upload == int(nums[1])
                      download == int(nums[2])
                      total == int(nums[3])
                      used == BigAdd(upload, download)
                  IN  IF total = <<>> THEN None
                      ELSE IF BigLess(used, total)
                      THEN IF true_divide_raises(BigSub(total, used)) THEN OverflowError
                           ELSE [url |-> url, type |-> "AirportSub",
                                 info |-> airport_info(BigSub(total, used))]
                      ELSE IF true_divide_raises(BigSub(used, total)) THEN OverflowError
                      ELSE None

\* the clash check of sub_check
check_clash(url, text) ==
    IF Contains(text, PROXIES) /\ (Contains(text, NAME) \/ Contains(text, SERVER))
       /\ CountSub(text, DASHNAME) > 0
    THEN [url |-> url, type |-> "ClashSub", info |-> nodes_info(CountSub(text, DASHNAME))]
    ELSE None

\* the base64 check of sub_check
check_base64(url, text) ==
    LET text_clean == RemoveChar(RemoveChar(Strip(text), "\n"), "\r")
        dec == b64decode(text_clean)
        decoded == utf8_ignore(dec.bytes)
        found == SelectSeq(protocols, LAMBDA proto : Contains(decoded, proto))
        lines == SelectSeq(Split(decoded, "\n"), LAMBDA line : Strip(line) # <<>>)
    IN  IF Len(text_clean) <= 20 \/ ~dec.ok THEN None
        ELSE IF found # <<>>
        THEN [url |-> url, type |-> "V2Sub",
              info |-> nodes_info(count_protocols(decoded, found)) \o <<" ">> \o B64TAG]
        ELSE IF (\E keyword \in config_keywords : Contains(Lower(decoded), keyword))
                /\ Len(lines) > 0
        THEN [url |-> url, type |-> "V2Sub",
              info |-> <<"U5305", "U542B", " ">> \o IntToStr(Len(lines))
                       \o <<" ", "U884C", "U914D", "U7F6E", " ">> \o B64TAG]
        ELSE None

\* the raw check reporting the number of schemes found, not of nodes
check_raw_counting_schemes(url, text) ==
    LET found == SelectSeq(protocols, LAMBDA proto : Contains(text, proto))
    IN  IF found # <<>>
        THEN [url |-> url, type |-> "V2Sub",
              info |-> nodes_info(Len(found)) \o <<" ", "(", "U539F", "U59CB", ")">>]
        ELSE None

\* the raw check of sub_check
check_raw(url, text) ==
    LET found == SelectSeq(protocols, LAMBDA proto : Contains(text, proto))
    IN  IF found # <<>>
        THEN [url |-> url, type |-> "V2Sub",
              info |-> nodes_info(count_protocols(text, found))
                       \o <<" ", "(", "U539F", "U59CB", ")">>]
        ELSE None

\* a classification that reads the usage-info header before the body length
classify_header_first(url, text, sub_info) ==
    IF check_airport(url, sub_info) # None THEN check_airport(url, sub_info)
    ELSE IF text = <<>> \/ Len(Strip(text)) < 10 THEN None
    ELSE IF check_clash(url, text) # None THEN check_clash(url, text)
    ELSE IF check_base64(url, text) # None THEN check_base64(url, text)
    ELSE check_raw(url, text)

\* sub_check on a 200 response, lines 108 to 197: the verdict, None, or the
\* ValueError or OverflowError that the airport check raises
classify(url, text, sub_info) ==
    IF text = <<>> \/ Len(Strip(text)) < 10 THEN None
    ELSE IF check_airport(url, sub_info) # None THEN check_airport(url, sub_info)
    ELSE IF check_clash(url, text) # None THEN check_clash(url, text)
    ELSE IF check_base64(url, text) # None THEN check_base64(url, text)
    ELSE check_raw(url, text)


\* "api.dler.io"
HOST1 == <<"a", "p", "i", ".", "d", "l", "e", "r", ".", "i", "o">>

\* "sub.xeton.dev"
HOST2 == <<"s", "u", "b", ".", "x", "e", "t", "o", "n", ".", "d", "e", "v">>

\* "sub.id9.cc"
HOST3 == <<"s", "u", "b", ".", "i", "d", "9", ".", "c", "c">>

\* "sub.maoxiongnet.com"
HOST4 == <<"s", "u", "b", ".", "m", "a", "o", "x", "i", "o", "n", "g", "n", "e", "t", ".", "c", "o", "m">>

\* "clash"
T_CLASH == <<"c", "l", "a", "s", "h">>

\* "loon"
T_LOON == <<"l", "o", "o", "n">>

\* "v2ray"
T_V2RAY == <<"v", "2", "r", "a", "y">>

\* "surge": a target main never asks for
T_SURGE == <<"s", "u", "r", "g", "e">>

\* "[Proxy]"
LOON_PROXY == <<"[", "P", "r", "o", "x", "y", "]">>

\* "https://"
URL_P1 == <<"h", "t", "t", "p", "s", ":", "/", "/">>

\* "/sub?target="
URL_P2 == <<"/", "s", "u", "b", "?", "t", "a", "r", "g", "e", "t", "=">>

\* "&url="
URL_P3 == <<"&", "u", "r", "l", "=">>

\* "&insert=false&config=config%2FACL4SSR.ini"
URL_P4 == <<"&", "i", "n", "s", "e", "r", "t", "=", "f", "a", "l", "s", "e", "&", "c", "o", "n", "f", "i", "g", "=", "c", "o", "n", "f", "i", "g", "%", "2", "F", "A", "C", "L", "4", "S", "S", "R", ".", "i", "n", "i">>

(***************************************************************************)
(* sub_check: one call, its retry loop                                     *)
(***************************************************************************)

\* What one HTTP request comes back with: a response (status, body, the
\* subscription-userinfo header, <<>> when absent), asyncio.TimeoutError
\* ("timeout") or any other exception ("exception")
Timeout == [kind |-> "timeout", status |-> 0, text |-> <<>>, sub_info |-> <<>>]

TransportError == [kind |-> "exception", status |-> 0, text |-> <<>>, sub_info |-> <<>>]

Response(status, text, sub_info) ==
    [kind |-> "response", status |-> status, text |-> text, sub_info |-> sub_info]

\* a terminal set that takes in every 5xx status
TerminalStatusesAll5xx == {403, 404, 410} \cup (500..599)

\* elif response.status in [403, 404, 410, 500]
TerminalStatuses == {403, 404, 410, 500}

\* a call of sub_check(url, session) that has entered its first request
sub_check_start(url) ==
    [fn |-> "sub_check", url |-> url, target |-> "", pc |-> "request", attempt |-> 0,
     calls |-> <<url>>, sleeps |-> 0, result |-> None]

\* a retry that never gives up
retry_always(t) == [t EXCEPT !.pc = "sleep", !.sleeps = @ + 1]

\* the call goes to sleep when this was its first attempt, and returns None
\* when it was its second
retry_or_give_up(t) ==
    IF t.attempt = 0
    THEN [t EXCEPT !.pc = "sleep", !.sleeps = @ + 1]
    ELSE [t EXCEPT !.pc = "returned", !.result = None]

\* lines 108 to 197 are over: they returned result, or raised into the except
\* of line 215
sub_check_classified(t, result) ==
    IF result \in {ValueError, OverflowError} THEN retry_or_give_up(t)
    ELSE [t EXCEPT !.pc = "returned", !.result = result]

\* the request of attempt t.attempt comes back with resp
sub_check_respond(t, resp) ==
    IF resp.kind = "response"
    THEN IF resp.status = 200
         THEN sub_check_classified(t, classify(t.url, resp.text, resp.sub_info))
         ELSE IF resp.status \in TerminalStatuses
         THEN [t EXCEPT !.pc = "returned", !.result = None]
         ELSE retry_or_give_up(t)
    ELSE retry_or_give_up(t)

\* asyncio.sleep(1) is over: continue with the next attempt
sub_check_wake(t) ==
    [t EXCEPT !.pc = "request", !.attempt = @ + 1, !.calls = Append(@, t.url)]

(***************************************************************************)
(* url_check_valid: one call, its loop over CHECK_URL_LIST                 *)
(***************************************************************************)

CHECK_URL_LIST == <<HOST1, HOST2, HOST3, HOST4>>

\* "%XX" for a byte
PercentByte(b) == <<"%", HexDigits[(b \div 16) + 1], HexDigits[(b % 16) + 1]>>

\* what stands for the UnicodeEncodeError of str.encode('utf-8'), in the
\* place of the string: no string holds this element
UnicodeEncodeError == <<"UnicodeEncodeError">>

\* s.encode('utf-8') raises UnicodeEncodeError: s holds a surrogate
encode_raises(s) == \E i \in 1..Len(s) : s[i] \in Surrogates

\* the UTF-8 bytes of a code point, percent-encoded
PercentCodePoint(cp) ==
    IF cp < 128 THEN PercentByte(cp)
    ELSE IF cp < 2048
    THEN PercentByte(192 + (cp \div 64)) \o PercentByte(128 + (cp % 64))
    ELSE IF cp < 65536
    THEN PercentByte(224 + (cp \div 4096)) \o PercentByte(128 + ((cp \div 64) % 64))
         \o PercentByte(128 + (cp % 64))
    ELSE PercentByte(240 + (cp \div 262144)) \o PercentByte(128 + ((cp \div 4096) % 64))
         \o PercentByte(128 + ((cp \div 64) % 64)) \o PercentByte(128 + (cp % 64))

\* the UTF-8 bytes of a character, percent-encoded; a surrogate has none
PercentChar(c) ==
    IF c \in Surrogates THEN UnicodeEncodeError ELSE PercentCodePoint(CodePoint(c))

\* the characters quote never encodes
Unreserved == Letters \cup Digits \cup {"_", ".", "-", "~"}

RECURSIVE quote_from_bytes(_)
\* urllib.parse.quote_from_bytes(url.encode('utf-8'), safe='') for a url that
\* encodes
quote_from_bytes(url) ==
    IF url = <<>> THEN <<>>
    ELSE (IF url[1] \in Unreserved THEN <<url[1]>> ELSE PercentChar(url[1]))
         \o quote_from_bytes(Tail(url))

\* urllib.parse.quote(url, safe=''): the whole url is encoded first
quote(url) == IF encode_raises(url) THEN UnicodeEncodeError ELSE quote_from_bytes(url)

\* the target as the characters put in the query
TargetStr(target) ==
    CASE target = "clash" -> T_CLASH [] target = "loon" -> T_LOON [] target = "v2ray" -> T_V2RAY
      [] target = "surge" -> T_SURGE

\* CHECK_NODE_URL_STR.format(check_base, target, encoded_url)
check_node_url(check_base, target, encoded_url) ==
    URL_P1 \o check_base \o URL_P2 \o TargetStr(target) \o URL_P3 \o encoded_url \o URL_P4

\* a call of url_check_valid(url, target, session) up to its first request:
\* it has entered the request, or quote raised at line 232, outside the try
url_check_start(url, target) ==
    IF quote(url) = UnicodeEncodeError
    THEN [fn |-> "url_check_valid", url |-> url, target |-> target, pc |-> "raised",
          attempt |-> 0, calls |-> <<>>, sleeps |-> 0, result |-> None]
    ELSE [fn |-> "url_check_valid", url |-> url, target |-> target, pc |-> "request",
          attempt |-> 0,
          calls |-> <<check_node_url(CHECK_URL_LIST[1], target, quote(url))>>,
          sleeps |-> 0, result |-> None]

\* a check of the response that leaves the target out
plausible_for_any_target(target, resp) ==
    /\ resp.kind = "response"
    /\ resp.status = 200
    /\ resp.text # <<>>
    /\ Len(Strip(resp.text)) >= 50

\* lines 238 to 267: the response makes the call return url
plausible(target, resp) ==
    /\ resp.kind = "response"
    /\ resp.status = 200
    /\ resp.text # <<>>
    /\ Len(Strip(resp.text)) >= 50
    /\ CASE target = "clash" ->
              /\ Contains(resp.text, PROXIES)
              /\ Contains(resp.text, NAME) \/ Contains(resp.text, SERVER)
              /\ CountSub(resp.text, DASHNAME) > 0
         [] target = "loon" -> Contains(resp.text, LOON_PROXY) \/ Contains(resp.text, <<"=">>)
         [] OTHER -> Len(Strip(resp.text)) > 100

\* a call that returns the URL as it was sent to the endpoint
url_check_found_encoded(t) ==
    [t EXCEPT !.pc = "returned", !.result = [None EXCEPT !.url = quote(t.url), !.type = "valid"]]

\* return url
url_check_found(t) ==
    [t EXCEPT !.pc = "returned", !.result = [None EXCEPT !.url = t.url, !.type = "valid"]]

\* a failure at one endpoint ends the call: return None
url_check_abort(t) == [t EXCEPT !.pc = "returned", !.result = None]

\* the loop moves to the next endpoint, or ends: return None
url_check_next(t) ==
    IF t.attempt + 1 < Len(CHECK_URL_LIST)
    THEN [t EXCEPT !.attempt = @ + 1,
                   !.calls = Append(@, check_node_url(CHECK_URL_LIST[t.attempt + 2],
                                                        t.target, quote(t.url)))]
    ELSE [t EXCEPT !.pc = "returned", !.result = None]

\* the request to endpoint t.attempt + 1 comes back with resp
url_check_respond(t, resp) ==
    IF plausible(t.target, resp) THEN url_check_found(t) ELSE url_check_next(t)


\* a clash body of two nodes (52 characters)
BODY_CLASH ==
    <<"p", "r", "o", "x", "i", "e", "s", ":", "\n", "-", " ", "n", "a", "m", "e", ":", " ",
        "A", "\n", " ", " ", "s", "e", "r", "v", "e", "r", ":", " ", "x", "\n", "-", " ",
        "n", "a", "m", "e", ":", " ", "B", "\n", " ", " ", "s", "e", "r", "v", "e", "r",
        ":", " ", "y">>

\* base64 of "vmess://abc\nvmess://def"
BODY_B64_VMESS ==
    <<"d", "m", "1", "l", "c", "3", "M", "6", "L", "y", "9", "h", "Y", "m", "M", "K", "d",
        "m", "1", "l", "c", "3", "M", "6", "L", "y", "9", "k", "Z", "W", "Y", "=">>

\* "ss://xyz some other text ss://abc"
BODY_RAW_SS ==
    <<"s", "s", ":", "/", "/", "x", "y", "z", " ", "s", "o", "m", "e", " ", "o", "t", "h",
        "e", "r", " ", "t", "e", "x", "t", " ", "s", "s", ":", "/", "/", "a", "b", "c">>

\* "short"
BODY_SHORT ==
    <<"s", "h", "o", "r", "t">>

\* "hello world, nothing here at all"
BODY_JUNK ==
    <<"h", "e", "l", "l", "o", " ", "w", "o", "r", "l", "d", ",", " ", "n", "o", "t", "h",
        "i", "n", "g", " ", "h", "e", "r", "e", " ", "a", "t", " ", "a", "l", "l">>

\* "upload=100; download=200; total=1000"
HDR_OK ==
    <<"u", "p", "l", "o", "a", "d", "=", "1", "0", "0", ";", " ", "d", "o", "w", "n", "l",
        "o", "a", "d", "=", "2", "0", "0", ";", " ", "t", "o", "t", "a", "l", "=", "1",
        "0", "0", "0">>

\* "upload=900; download=200; total=1000"
HDR_USED_UP ==
    <<"u", "p", "l", "o", "a", "d", "=", "9", "0", "0", ";", " ", "d", "o", "w", "n", "l",
        "o", "a", "d", "=", "2", "0", "0", ";", " ", "t", "o", "t", "a", "l", "=", "1",
        "0", "0", "0">>

\* "upload=0; download=0; total=1610612736"
HDR_GB ==
    <<"u", "p", "l", "o", "a", "d", "=", "0", ";", " ", "d", "o", "w", "n", "l", "o", "a",
        "d", "=", "0", ";", " ", "t", "o", "t", "a", "l", "=", "1", "6", "1", "0", "6",
        "1", "2", "7", "3", "6">>

\* n times the character c
Repeat(c, n) == [i \in 1..n |-> c]

\* "1 2 ", 4300 zeros and a 9: the integers 1, 2 and 9, the third in one
\* digit more than int reads
HDR_LONG == <<"1", " ", "2", " ">> \o Repeat("0", INT_MAX_STR_DIGITS) \o <<"9">>

\* "1 2 " and 4301 zeros: the integers 1, 2 and 0
HDR_LONG_ZERO == <<"1", " ", "2", " ">> \o Repeat("0", INT_MAX_STR_DIGITS + 1)

\* "1 2 " and 400 nines: a total that int reads and the floats do not hold
HDR_HUGE == <<"1", " ", "2", " ">> \o Repeat("9", 400)

\* 400 nines and then " 2 1": a total of 1 and a quota used up beyond the floats
HDR_HUGE_USED == Repeat("9", 400) \o <<" ", "2", " ", "1">>

\* "1 2 " and 27 nines: a quota of 9.313225746154785e+17 GB
HDR_EXA == <<"1", " ", "2", " ">> \o Repeat("9", 27)

\* "[Proxy]" and 50 more characters
NODE_LOON == LOON_PROXY \o Repeat("x", 50)

\* 101 characters, none of them "="
NODE_LONG == Repeat("x", 101)

\* 100 characters
NODE_100 == Repeat("x", 100)

\* "a=b" and 46 more characters, then spaces: 49 characters once trimmed
NODE_49 == <<"a", "=", "b">> \o Repeat("x", 46) \o Repeat(" ", 5)

\* "a=b" and 47 more characters: 50 characters
NODE_50 == <<"a", "=", "b">> \o Repeat("x", 47)

\* What a request of sub_check may come back with
SubResponses ==
    {Timeout, TransportError}
    \cup {Response(st, <<>>, <<>>) : st \in {403, 404, 410, 500, 502, 503, 429}}
    \cup {Response(200, BODY_CLASH, <<>>), Response(200, BODY_CLASH, HDR_OK),
          Response(200, BODY_CLASH, HDR_USED_UP), Response(200, BODY_JUNK, HDR_GB),
          Response(200, BODY_B64_VMESS, <<>>), Response(200, BODY_RAW_SS, <<>>),
          Response(200, BODY_SHORT, HDR_OK), Response(200, BODY_JUNK, <<>>),
          Response(200, <<>>, <<>>), Response(200, BODY_CLASH, HDR_LONG),
          Response(200, BODY_CLASH, HDR_HUGE)}

\* What a request of url_check_valid may come back with
NodeResponses ==
    {Timeout, TransportError, Response(404, <<>>, <<>>), Response(503, NODE_LONG, <<>>),
     Response(200, <<>>, <<>>), Response(200, NODE_49, <<>>), Response(200, BODY_CLASH, <<>>),
     Response(200, NODE_LOON, <<>>), Response(200, NODE_LONG, <<>>),
     Response(200, NODE_100, <<>>), Response(200, NODE_50, <<>>)}

Targets == {"clash", "loon", "v2ray", "surge"}

(***************************************************************************)
(* One call of sub_check or url_check_valid against a scripted session     *)
(***************************************************************************)

ProbeInit ==
    /\ \/ \E url \in {U_ax, U_b} : probe = [task |-> sub_check_start(url), log |-> <<>>]
       \/ \E url \in {U_ax, U_way, U_sur} : \E target \in Targets :
             probe = [task |-> url_check_start(url, target), log |-> <<>>]
    /\ dedup = DedupIdle
    /\ pool = PoolIdle
    /\ run = RunIdle
    /\ disk = DiskIdle
    /\ batch = BatchIdle

\* a request of sub_check comes back
ProbeSubRespond ==
    /\ probe.task.fn = "sub_check"
    /\ probe.task.pc = "request"
    /\ \E resp \in SubResponses :
          probe' = [task |-> sub_check_respond(probe.task, resp), log |-> Append(probe.log, resp)]
    /\ UNCHANGED notProbe

\* the backoff of sub_check is over
ProbeSubWake ==
    /\ probe.task.fn = "sub_check"
    /\ probe.task.pc = "sleep"
    /\ probe' = [probe EXCEPT !.task = sub_check_wake(probe.task)]
    /\ UNCHANGED notProbe

\* a request of url_check_valid comes back
ProbeNodeRespond ==
    /\ probe.task.fn = "url_check_valid"
    /\ probe.task.pc = "request"
    /\ \E resp \in NodeResponses :
          probe' = [task |-> url_check_respond(probe.task, resp), log |-> Append(probe.log, resp)]
    /\ UNCHANGED notProbe

ProbeNext == ProbeSubRespond \/ ProbeSubWake \/ ProbeNodeRespond

\* C2: url_check_valid asks the endpoints in the order of CHECK_URL_LIST, one
\* request each; the first response that passes the target's check ends the
\* call: no later endpoint is asked and the URL returned is the input URL.
C2_FirstSatisfyingEndpointWins ==
    probe.task.fn = "url_check_valid" =>
        LET t == probe.task
        IN  /\ Len(t.calls) <= Len(CHECK_URL_LIST)
            /\ \A j \in 1..Len(t.calls) :
                  t.calls[j] = URL_P1 \o CHECK_URL_LIST[j] \o URL_P2 \o TargetStr(t.target)
                               \o URL_P3 \o quote(t.url) \o URL_P4
            /\ \A k \in 1..Len(probe.log) :
                  plausible(t.target, probe.log[k]) =>
                      /\ k = Len(probe.log)
                      /\ Len(t.calls) = k
                      /\ t.pc = "returned"
                      /\ t.result.type = "valid"
                      /\ t.result.url = t.url

\* Only the third endpoint satisfies the check of the target: three requests,
\* and the input URL, which is not the encoded one, comes back.
C2_Witness ==
    /\ probe.task.fn = "url_check_valid"
    /\ probe.task.target = "clash"
    /\ probe.task.url = U_ax
    /\ quote(U_ax) # U_ax
    /\ Len(probe.log) = 3
    /\ ~plausible("clash", probe.log[1])
    /\ ~plausible("clash", probe.log[2])
    /\ plausible("clash", probe.log[3])
    /\ Len(probe.task.calls) = 3
    /\ probe.task.result.url = U_ax

\* a status that ends sub_check at once
IsTerminal(resp) == resp.kind = "response" /\ resp.status \in {403, 404, 410, 500}

\* a timeout, an exception, or a status that is neither 200 nor terminal
IsTransient(resp) ==
    resp.kind # "response" \/ (resp.status # 200 /\ resp.status \notin {403, 404, 410, 500})

\* the integer a run of digits writes, whatever the length of the run
IntegerOf(digits) == StripZeros([i \in 1..Len(digits) |-> DigitVal(digits[i])])

\* the remaining quota of three integers is too large, above or below 0, for
\* the division by 1024 ** 3, which is made when total > 0
QuotaBeyondFloat(upload, download, total) ==
    LET used == BigAdd(upload, download)
    IN  /\ total # <<>>
        /\ true_divide_raises(IF BigLess(used, total) THEN BigSub(total, used)
                              ELSE BigSub(used, total))

\* a 200 response that fails while it is read: its body is long enough and,
\* of the first three integers of its header, one has more digits than int
\* reads, or their remaining quota is beyond the floats
FailsWhenRead(resp) ==
    /\ resp.kind = "response"
    /\ resp.status = 200
    /\ Len(Strip(resp.text)) >= 10
    /\ LET nums == findall_digits(resp.sub_info)
       IN  /\ Len(nums) >= 3
           /\ \/ \E k \in 1..3 : Len(nums[k]) > INT_MAX_STR_DIGITS
              \/ QuotaBeyondFloat(IntegerOf(nums[1]), IntegerOf(nums[2]),
                                  IntegerOf(nums[3]))

\* C3: sub_check issues at most two requests; a transient failure of the
\* first is followed by one backoff and one second request; a terminal status
\* ends the call with no verdict; a failed second request ends it with no
\* verdict, no backoff and no third request.
C3_AtMostTwoAttempts ==
    probe.task.fn = "sub_check" =>
        LET t == probe.task
            log == probe.log
        IN  /\ Len(t.calls) <= 2
            /\ t.sleeps <= 1
            /\ Len(log) >= 1 /\ IsTransient(log[1]) =>
                  /\ t.sleeps = 1
                  /\ t.pc # "sleep" => Len(t.calls) = 2
            /\ Len(log) >= 1 /\ ~IsTransient(log[1]) /\ ~FailsWhenRead(log[1]) =>
                  t.sleeps = 0 /\ Len(t.calls) = 1
            /\ \A j \in 1..Len(log) :
                  IsTerminal(log[j]) =>
                      /\ j = Len(log)
                      /\ Len(t.calls) = j
                      /\ t.pc = "returned"
                      /\ t.result = None
            /\ Len(log) = 2 /\ (IsTransient(log[2]) \/ IsTerminal(log[2])
                                 \/ FailsWhenRead(log[2])) =>
                  /\ t.pc = "returned"
                  /\ t.result = None
                  /\ t.sleeps = 1
                  /\ Len(t.calls) = 2

\* A 503 and then a timeout: one backoff, two requests, no verdict.
C3_Witness ==
    /\ probe.task.fn = "sub_check"
    /\ Len(probe.log) = 2
    /\ probe.log[1] = Response(503, <<>>, <<>>)
    /\ probe.log[2] = Timeout
    /\ probe.task.pc = "returned"
    /\ probe.task.sleeps = 1
    /\ Len(probe.task.calls) = 2
    /\ probe.task.result = None


(***************************************************************************)
(* sub_check on one 200 response, over generated bodies and headers        *)
(***************************************************************************)

\* the base64 alphabet
B64Chars == 
    <<"A", "B", "C", "D", "E", "F", "G", "H", "I", "J", "K", "L", "M", "N", "O", "P",
      "Q", "R", "S", "T", "U", "V", "W", "X", "Y", "Z", "a", "b", "c", "d", "e", "f",
      "g", "h", "i", "j", "k", "l", "m", "n", "o", "p", "q", "r", "s", "t", "u", "v",
      "w", "x", "y", "z", "0", "1", "2", "3", "4", "5", "6", "7", "8", "9", "+", "/">>

RECURSIVE B64EncodeBytes(_)
\* base64.b64encode of a sequence of bytes
B64EncodeBytes(b) ==
    IF b = <<>> THEN <<>>
    ELSE IF Len(b) = 1
    THEN <<B64Chars[(b[1] \div 4) + 1], B64Chars[((b[1] % 4) * 16) + 1], "=", "=">>
    ELSE IF Len(b) = 2
    THEN <<B64Chars[(b[1] \div 4) + 1], B64Chars[((b[1] % 4) * 16) + (b[2] \div 16) + 1],
           B64Chars[((b[2] % 16) * 4) + 1], "=">>
    ELSE <<B64Chars[(b[1] \div 4) + 1], B64Chars[((b[1] % 4) * 16) + (b[2] \div 16) + 1],
           B64Chars[((b[2] % 16) * 4) + (b[3] \div 64) + 1], B64Chars[(b[3] % 64) + 1]>>
         \o B64EncodeBytes(Drop(b, 3))

\* base64 of a text of characters below code point 256, one byte each
B64Encode(text) == B64EncodeBytes([i \in 1..Len(text) |-> CodePoint(text[i])])

\* The largest number of nodes in a generated body
MaxNodes == 3

RECURSIVE Lines(_, _)
\* k lines made of line: line, "\n", line, ...
Lines(line, k) ==
    IF k = 0 THEN <<>> ELSE IF k = 1 THEN line ELSE line \o <<"\n">> \o Lines(line, k - 1)

\* "vmess://abc"
VMESS_URI == VMESS \o <<"a", "b", "c">>

\* "ss://xyz"
SS_URI == SS \o <<"x", "y", "z">>

\* "trojan://pw@h"
TROJAN_URI == TROJAN \o <<"p", "w", "@", "h">>

\* "- name: A" and "  server: x"
CLASH_NODE == DASHNAME \o <<" ", "A", "\n", " ", " ">> \o SERVER \o <<" ", "x">>

RECURSIVE IntToStrIn(_, _)
\* n >= 0 in the decimal digits of the script whose digit zero is chr(zero)
IntToStrIn(zero, n) ==
    IF n < 10 THEN <<chr(zero + n)>>
    ELSE IntToStrIn(zero, n \div 10) \o <<chr(zero + (n % 10))>>

\* "upload=u; download=d; total=t" with the numbers in the digits of a script
HeaderIn(zero, u, d, t) ==
    <<"u", "p", "l", "o", "a", "d", "=">> \o IntToStrIn(zero, u)
    \o <<";", " ", "d", "o", "w", "n", "l", "o", "a", "d", "=">> \o IntToStrIn(zero, d)
    \o <<";", " ", "t", "o", "t", "a", "l", "=">> \o IntToStrIn(zero, t)

\* "upload=u; download=d; total=t"
Header(u, d, t) == HeaderIn(48, u, d, t)

\* the digit zero of the scripts of the generated headers: ASCII,
\* Arabic-Indic and fullwidth
DigitScripts == {48, 1632, 65296}

\* the byte counts of the generated headers
Amounts == {0, 100, 200, 900, 1000}

\* the generated header of each script and each (uploaded, downloaded, total)
GeneratedHeader ==
    [zero \in DigitScripts, u \in Amounts, d \in Amounts, t \in Amounts |->
        HeaderIn(zero, u, d, t)]

\* the usage-info headers of the generated responses: none, three integers in
\* the digits of each script, fewer than three, a fourth field after the
\* three, a third integer in more digits than int reads, and quotas beyond
\* the floats and beyond 2 ** 53
ClassifyHeaders ==
    {<<>>, HDR_GB, <<"u", "p", "l", "o", "a", "d", "=", "1", ";", " ", "t", "=", "2">>}
    \cup {GeneratedHeader[h] : h \in DOMAIN GeneratedHeader}
    \cup {Header(100, 200, 1000) \o <<";", " ", "e", "x", "p", "i", "r", "e", "=", "0">>}
    \cup {HDR_LONG, HDR_LONG_ZERO, HDR_HUGE, HDR_HUGE_USED, HDR_EXA}

\* "可" and then the base64 of two vmess:// URIs: b64decode raises ValueError
BODY_B64_NONASCII == <<"U53EF">> \o BODY_B64_VMESS

\* base64 of "server=1.2.3.4", a line of a vertical tab and a form feed, and
\* "port=1": two lines are left once the blank ones are dropped
BODY_B64_BLANK_LINE ==
    B64Encode(KW_SERVER \o <<"=", "1", ".", "2", ".", "3", ".", "4", "\n", "U000B", "U000C", "\n">>
              \o KW_PORT \o <<"=", "1">>)

\* the bodies of the generated responses
ClassifyBodies ==
    {<<>>, BODY_SHORT, BODY_B64_NONASCII, BODY_B64_BLANK_LINE, <<" ", " ", " ">> \o BODY_SHORT \o Repeat(" ", 9), BODY_JUNK,
     BODY_CLASH, BODY_B64_VMESS, BODY_RAW_SS, SS_URI, <<"\n">> \o SS_URI \o <<"\n">>,
     SS_URI \o <<" ">> \o VMESS_URI,
     SS \o B64Encode(Lines(TROJAN_URI, 2)), B64Encode(Lines(TROJAN_URI, 2)) \o <<"\n">> \o SS_URI,
     PROXIES \o <<"\n">> \o CLASH_NODE \o <<" ">> \o SS_URI,
     PROXIES \o <<"\n">> \o SERVER \o <<" ", "x", "\n">> \o NAME \o <<" ", "A">>,
     DASHNAME \o <<" ", "A", "\n", " ", " ">> \o SERVER \o <<" ", "x", " ", "y", " ", "z">>,
     B64Encode(BODY_JUNK), B64Encode(KW_SERVER \o <<" ", "=", " ", "1", ".", "2", ".", "3", ".", "4", "\n">> \o KW_PORT \o <<" ", "=", " ", "4", "4", "3">>)}
    \cup {Lines(SS_URI, k) : k \in 1..MaxNodes}
    \cup {Lines(SS_URI \o <<" ", "s", "o", "m", "e", " ", "t", "e", "x", "t">>, k) : k \in 1..MaxNodes}
    \cup {B64Encode(Lines(VMESS_URI, k)) : k \in 1..MaxNodes}
    \cup {B64Encode(Lines(TROJAN_URI, k)) : k \in 1..MaxNodes}
    \cup {PROXIES \o <<"\n">> \o Lines(CLASH_NODE, k) : k \in 1..MaxNodes}

\* the 200 responses sub_check is given
ClassifyResponses == {Response(200, text, sub_info) : text \in ClassifyBodies, sub_info \in ClassifyHeaders}

ClassifyInit ==
    /\ probe = [task |-> sub_check_start(U_ax), log |-> <<>>]
    /\ dedup = DedupIdle
    /\ pool = PoolIdle
    /\ run = RunIdle
    /\ disk = DiskIdle
    /\ batch = BatchIdle

\* the first request of sub_check comes back with a 200 response
ClassifyRespond ==
    /\ probe.task.fn = "sub_check"
    /\ probe.log = <<>>
    /\ \E resp \in ClassifyResponses :
          probe' = [task |-> sub_check_respond(probe.task, resp), log |-> <<resp>>]
    /\ UNCHANGED notProbe


(***************************************************************************)
(* The deduplicator and one category of MergeAndDedupe, on every list      *)
(***************************************************************************)

DedupInit ==
    /\ \E inp \in SeqsUpTo(DedupEntries, MaxLen) : \E k \in 0..Len(inp) :
          dedup = [DedupIdle EXCEPT !.pc = "input", !.inp = inp, !.k = k]
    /\ probe = ProbeIdle
    /\ pool = PoolIdle
    /\ run = RunIdle
    /\ disk = DiskIdle
    /\ batch = BatchIdle

\* deduplicate_urls_by_domain(inp)
Dedupe ==
    /\ dedup.pc = "input"
    /\ dedup' = [dedup EXCEPT !.pc = "deduped", !.out = deduplicate_urls_by_domain(dedup.inp)]
    /\ UNCHANGED notDedup

\* one category of step four of main: inp[:k] is still valid, inp[k:] is new
Merge ==
    /\ dedup.pc = "input"
    /\ dedup' = [dedup EXCEPT !.pc = "merged",
                              !.once = merge_and_dedupe(Take(dedup.inp, dedup.k),
                                                        Drop(dedup.inp, dedup.k))]
    /\ UNCHANGED notDedup

\* the same step again, its own output the only input
MergeAgain ==
    /\ dedup.pc = "merged"
    /\ dedup' = [dedup EXCEPT !.pc = "remerged", !.twice = merge_and_dedupe(dedup.once, <<>>)]
    /\ UNCHANGED notDedup

DedupNext == Dedupe \/ Merge \/ MergeAgain


\* The entries of a list that are filed under key
WithKey(list, key) == {i \in 1..Len(list) : dict_key(list[i]) = key}

\* C7: the deduplicated list is no longer than the input and holds, for each
\* DomainKey of the input, exactly one entry: the input's last entry of that key.
C7_DedupKeepsLastPerDomain ==
    dedup.pc = "deduped" =>
        /\ Len(dedup.out) <= Len(dedup.inp)
        /\ Range(dedup.out) \subseteq Range(dedup.inp)
        /\ \A i \in 1..Len(dedup.inp) :
              LET key  == dict_key(dedup.inp[i])
                  last == CHOOSE j \in WithKey(dedup.inp, key) :
                              \A l \in WithKey(dedup.inp, key) : l <= j
              IN  /\ Cardinality(WithKey(dedup.out, key)) = 1
                  /\ \A j \in WithKey(dedup.out, key) : dedup.out[j] = dedup.inp[last]

\* An annotated entry and a plain URL of one domain, the annotated one first:
\* the plain URL, which comes last, is the one that survives.
C7_Witness ==
    /\ dedup.pc = "deduped"
    /\ dedup.inp = <<P_ax, U_b, U_way>>
    /\ dedup.out = <<U_way, U_b>>

\* C8: MergeAndDedupe applied to its own output leaves size and members unchanged.
C8_MergeIdempotent ==
    dedup.pc = "remerged" =>
        /\ Len(dedup.twice) = Len(dedup.once)
        /\ Range(dedup.twice) = Range(dedup.once)

\* A merge that dropped a same-domain entry the first time and nothing the
\* second time (the order of the list changes, its members do not).
C8_Witness ==
    /\ dedup.pc = "remerged"
    /\ dedup.inp = <<U_way, U_b, U_ax>>
    /\ dedup.k = 1
    /\ dedup.once = <<U_way, U_b>>
    /\ dedup.twice = <<U_b, U_way>>



(***************************************************************************)
(* asyncio.Semaphore, and a batch of probes under it, counted by position  *)
(***************************************************************************)

\* semaphore = asyncio.Semaphore(50) of check_subscriptions
SEM_CHECK_SUBSCRIPTIONS == 50

\* semaphore = asyncio.Semaphore(30) of validate_existing_subscriptions
SEM_VALIDATE_EXISTING == 30

\* semaphore = asyncio.Semaphore(20) of check_nodes
SEM_CHECK_NODES == 20

\* the semaphore of a batch
semaphore_of(fn) ==
    CASE fn = "check_subscriptions" -> SEM_CHECK_SUBSCRIPTIONS
      [] fn = "validate_existing_subscriptions" -> SEM_VALIDATE_EXISTING
      [] fn = "check_nodes" -> SEM_CHECK_NODES

\* a semaphore that lets everyone in
sem_unlocked(value) == TRUE

\* async with semaphore, entering: a permit is free
sem_can_acquire(value) == value > 0

\* the probe function a batch runs
probe_of(fn) == IF fn = "check_nodes" THEN "url_check_valid" ELSE "sub_check"

\* How many probes a batch submits beyond the bound of its semaphore
ExtraTasks == 1

\* The positions of a probe inside its call: <<pc, attempt>>
Positions(fn) ==
    IF probe_of(fn) = "sub_check"
    THEN {<<"request", 0>>, <<"sleep", 0>>, <<"request", 1>>}
    ELSE {<<"request", k>> : k \in 0..(Len(CHECK_URL_LIST) - 1)}

\* a probe of the batch at position pos
ProbeAt(fn, pos) ==
    [(IF probe_of(fn) = "sub_check" THEN sub_check_start(U_ax) ELSE url_check_start(U_ax, "loon"))
        EXCEPT !.pc = pos[1], !.attempt = pos[2]]

\* what the requests of a batch come back with: a timeout, a terminal and a
\* retried status, a body that gives no verdict or a body that gives one
PoolResponses(fn) ==
    IF probe_of(fn) = "sub_check"
    THEN {Timeout, Response(404, <<>>, <<>>), Response(503, <<>>, <<>>),
          Response(200, <<>>, <<>>), Response(200, BODY_RAW_SS, <<>>)}
    ELSE {Timeout, Response(404, <<>>, <<>>), Response(200, NODE_LOON, <<>>)}

\* where a request at a position can leave its probe, over every response
PoolStep ==
    [fn \in {"check_subscriptions", "validate_existing_subscriptions", "check_nodes"} |->
        [pos \in {q \in Positions(fn) : q[1] = "request"} |->
            {LET t == IF probe_of(fn) = "sub_check"
                      THEN sub_check_respond(ProbeAt(fn, pos), resp)
                      ELSE url_check_respond(ProbeAt(fn, pos), resp)
             IN  <<t.pc, t.attempt>> : resp \in PoolResponses(fn)}]]

\* where the end of the backoff leaves a probe
PoolWakeTo ==
    LET t == sub_check_wake(ProbeAt("check_subscriptions", <<"sleep", 0>>))
    IN  <<t.pc, t.attempt>>

\* where entering its call leaves the probe of a URL: at its first request,
\* or out of the call when quote raises (url_check_valid, line 232)
PoolStart(fn, url) ==
    LET t == IF probe_of(fn) = "sub_check" THEN sub_check_start(url)
             ELSE url_check_start(url, "loon")
    IN  <<t.pc, t.attempt>>

\* the probes that hold a permit: inside sub_check or url_check_valid
InFlight == LET S == DOMAIN pool.inside IN
    IF S = {} THEN 0 ELSE
    LET RECURSIVE Sum(_)
        Sum(T) == IF T = {} THEN 0
                  ELSE LET x == CHOOSE x \in T : TRUE IN pool.inside[x] + Sum(T \ {x})
    IN  Sum(S)

\* the event loop of asyncio.run runs the tasks of the batch: while the
\* batch function runs, and after an exception has left it until the loop has
\* run the callbacks that were scheduled and the tasks left are cancelled
PoolLoopRuns == pool.pc \in {"running", "raised"}

\* a batch over semaphore_of(fn) + ExtraTasks URLs: U_ax, and in some batches
\* U_sur once
PoolInit ==
    /\ \E fn \in {"check_subscriptions", "validate_existing_subscriptions", "check_nodes"} :
       \E sur \in {0, 1} :
          pool = [fn |-> fn, pc |-> "running", value |-> semaphore_of(fn),
                  waiting |-> semaphore_of(fn) + ExtraTasks, surrogate |-> sur,
                  inside |-> [pos \in Positions(fn) |-> 0], raised |-> 0, finished |-> 0,
                  cancelled |-> 0]
    /\ dedup = DedupIdle
    /\ probe = ProbeIdle
    /\ run = RunIdle
    /\ disk = DiskIdle
    /\ batch = BatchIdle

\* the waiting probes of the batch whose URL is url
PoolWaiting(url) == IF url = U_sur THEN pool.surrogate ELSE pool.waiting - pool.surrogate

\* async with semaphore: a submitted probe gets a permit and sends its first
\* request, or leaves the block with the exception of quote and gives the
\* permit back
PoolAcquire ==
    /\ pool.fn # "none"
    /\ PoolLoopRuns
    /\ sem_can_acquire(pool.value)
    /\ \E url \in {U_ax, U_sur} :
          /\ PoolWaiting(url) > 0
          /\ pool' = IF PoolStart(pool.fn, url)[1] = "raised"
                     THEN [pool EXCEPT !.waiting = @ - 1,
                                       !.surrogate = IF url = U_sur THEN @ - 1 ELSE @,
                                       !.raised = @ + 1, !.finished = @ + 1]
                     ELSE [pool EXCEPT !.value = @ - 1, !.waiting = @ - 1,
                                       !.surrogate = IF url = U_sur THEN @ - 1 ELSE @,
                                       !.inside[PoolStart(pool.fn, url)] = @ + 1]
    /\ UNCHANGED notPool

\* res = await coro in the for loop over as_completed, on a probe that ended
\* with an exception: the exception leaves the batch function. The probes
\* that have not ended go on until PoolCancel
PoolRaise ==
    /\ pool.fn # "none"
    /\ pool.pc = "running"
    /\ pool.raised > 0
    /\ pool' = [pool EXCEPT !.pc = "raised", !.raised = @ - 1]
    /\ UNCHANGED notPool

\* a request comes back; a probe that returns leaves the async with block
PoolRespond ==
    /\ pool.fn # "none"
    /\ PoolLoopRuns
    /\ \E pos \in DOMAIN PoolStep[pool.fn] : \E to \in PoolStep[pool.fn][pos] :
          /\ pool.inside[pos] > 0
          /\ IF to[1] = "returned"
             THEN pool' = [pool EXCEPT !.inside[pos] = @ - 1, !.value = @ + 1,
                                       !.finished = @ + 1]
             ELSE pool' = [pool EXCEPT !.inside[pos] = @ - 1, !.inside[to] = @ + 1]
    /\ UNCHANGED notPool

\* the backoff of a probe is over
PoolWake ==
    /\ pool.fn # "none"
    /\ PoolLoopRuns
    /\ <<"sleep", 0>> \in DOMAIN pool.inside
    /\ pool.inside[<<"sleep", 0>>] > 0
    /\ pool' = [pool EXCEPT !.inside[<<"sleep", 0>>] = @ - 1, !.inside[PoolWakeTo] = @ + 1]
    /\ UNCHANGED notPool

\* asyncio.run after the exception has left the batch function: the loop
\* stops when it has run the callbacks that were scheduled, and the tasks
\* that have not ended are cancelled: CancelledError is no Exception, no
\* handler of a probe takes it, a probe inside its call leaves async with
\* semaphore and gives its permit back, a waiting probe never gets one
PoolCancel ==
    /\ pool.fn # "none"
    /\ pool.pc = "raised"
    /\ pool' = [pool EXCEPT !.pc = "cancelled", !.cancelled = pool.waiting + InFlight,
                            !.waiting = 0, !.surrogate = 0,
                            !.inside = [pos \in DOMAIN pool.inside |-> 0],
                            !.value = @ + InFlight]
    /\ UNCHANGED notPool

PoolNext == PoolAcquire \/ PoolRespond \/ PoolWake \/ PoolRaise \/ PoolCancel

\* C1: the probes inside their call, a backoff included, never outnumber the
\* semaphore of the batch: 50, 30 or 20.
C1_InFlightWithinBound ==
    pool.fn # "none" =>
        InFlight <= (CASE pool.fn = "check_subscriptions" -> 50
                       [] pool.fn = "validate_existing_subscriptions" -> 30
                       [] pool.fn = "check_nodes" -> 20)

\* check_subscriptions at its bound: 50 probes inside, one of them in its
\* backoff, and one more submitted probe waiting for a permit.
C1_Witness ==
    /\ pool.fn = "check_subscriptions"
    /\ InFlight = 50
    /\ pool.inside[<<"sleep", 0>>] > 0
    /\ pool.waiting > 0


(***************************************************************************)
(* The configuration file, the channel pages and the lists of main         *)
(***************************************************************************)

\* the keys "机场订阅", "clash订阅", "v2订阅", "开心玩耍" of the configuration
Categories == <<"AirportSub", "ClashSub", "V2Sub", "PlayList">>

\* a dict, and the None that yaml.safe_load gives for an empty document
Dict(items) == [type |-> "dict", items |-> items]

PyNone == [type |-> "NoneType", items |-> <<>>]

\* the default structure of load_yaml_config
default_config ==
    [AirportSub |-> <<>>, ClashSub |-> <<>>, V2Sub |-> <<>>, PlayList |-> <<>>,
     tgchannel |-> <<>>]

\* config.yaml: absent, or what yaml.safe_load makes of it
NoFile == [exists |-> FALSE, loads |-> "none", value |-> PyNone]

\* config.yaml whose text is not YAML: yaml.safe_load raises
BadFile == [exists |-> TRUE, loads |-> "YAMLError", value |-> PyNone]

File(value) == [exists |-> TRUE, loads |-> "ok", value |-> value]

\* load_yaml_config(path_yaml): the value it returns, or the exception that
\* leaves it
load_yaml_config(file) ==
    IF file.exists
    THEN IF file.loads = "ok"
         THEN [raised |-> "none", config |-> file.value]
         ELSE [raised |-> file.loads, config |-> PyNone]
    ELSE [raised |-> "none", config |-> Dict(default_config)]

\* the characters at which YAML breaks a line: "\n", U+0085, U+2028, U+2029
YamlBreaks == {"\n", chr(133), chr(8232), chr(8233)}

\* the emitter of yaml.dump(..., allow_unicode=True) writes the character as
\* it is: a line feed, printable ASCII, U+0085, and from U+00A0 on all but
\* the surrogates, U+FEFF, U+FFFE and U+FFFF. Any other character makes the
\* emitter put the whole string between double quotes and escape it
WritableCodePoint(cp) ==
    \/ cp = 10
    \/ cp >= 32 /\ cp <= 126
    \/ /\ cp # 65279
       /\ \/ cp = 133
          \/ cp >= 160 /\ cp <= 55295
          \/ cp >= 57344 /\ cp <= 65533
          \/ cp >= 65536 /\ cp < 1114111

\* the emitter writes the character c as it is
YamlWritable(c) == WritableCodePoint(CodePoint(c))

\* the emitter writes the string between single quotes on several lines: it
\* holds a line break, only characters written as they are, and no space next
\* to a line break. Every other string is read back as it was
SingleQuotedLines(text) ==
    /\ \E i \in 1..Len(text) : text[i] \in YamlBreaks
    /\ \A i \in 1..Len(text) : YamlWritable(text[i])
    /\ \A i \in 1..(Len(text) - 1) :
           /\ ~(text[i] = " " /\ text[i + 1] \in YamlBreaks)
           /\ ~(text[i] \in YamlBreaks /\ text[i + 1] = " ")

\* scan_line_break of the scanner: U+0085 is read as a line feed
scan_line_break(c) == IF c = chr(133) THEN "\n" ELSE c

\* A run of line breaks between single quotes, written and read back. The
\* emitter writes the run, after one more line feed when the run starts with
\* one; the scanner folds the first break that it reads as a line feed: into
\* a space when no break follows, into nothing when one does
folded_breaks(breaks) ==
    LET rest == [i \in 1..(Len(breaks) - 1) |-> scan_line_break(breaks[i + 1])]
    IN  IF breaks[1] = "\n" THEN <<"\n">> \o rest
        ELSE IF breaks[1] = chr(133) THEN IF rest = <<>> THEN <<" ">> ELSE rest
        ELSE <<breaks[1]>> \o rest

RECURSIVE folded_lines(_)
\* a string written between single quotes and read back, run by run
folded_lines(text) ==
    IF \A i \in 1..Len(text) : text[i] \notin YamlBreaks THEN text
    ELSE LET first == CHOOSE i \in 1..Len(text) :
                          text[i] \in YamlBreaks /\ \A j \in 1..(i - 1) : text[j] \notin YamlBreaks
             last  == CHOOSE j \in first..Len(text) :
                          /\ \A k \in first..j : text[k] \in YamlBreaks
                          /\ (j = Len(text) \/ text[j + 1] \notin YamlBreaks)
         IN  Take(text, first - 1) \o folded_breaks(SubSeq(text, first, last))
                 \o folded_lines(Drop(text, last))

\* what yaml.safe_load reads of a str that yaml.dump wrote
yaml_reloaded(text) == IF SingleQuotedLines(text) THEN folded_lines(text) ELSE text

\* config.yaml after save_yaml_config(config, path_yaml), for a dict of
\* lists of str: what yaml.safe_load makes of the text that
\* yaml.dump(config, f, allow_unicode=True) wrote
save_yaml_config(config) ==
    File(Dict([key \in DOMAIN config |->
                  [i \in 1..Len(config[key]) |-> yaml_reloaded(config[key][i])]]))

\* config.get(key, []) on the items of a dict
Get(items, key) == IF key \in DOMAIN items THEN items[key] ELSE <<>>

\* "https://t.me/s/"
TME_S == <<"h", "t", "t", "p", "s", ":", "/", "/", "t", ".", "m", "e", "/", "s", "/">>

\* the list get_config_channels builds from config['tgchannel']
get_config_channels(items) ==
    LET tgchannels == Get(items, "tgchannel")
    IN  [i \in 1..Len(tgchannels) |->
            LET parts == Split(Strip(tgchannels[i]), "/")
            IN  TME_S \o parts[Len(parts)]]

\* [-A-Za-z0-9+&@#/%=~_|], the last character of RE_URL
UrlEndChars == Letters \cup Digits \cup {"-", "+", "&", "@", "#", "/", "%", "=", "~", "_", "|"}

\* [-A-Za-z0-9+&@#/%?=~_|!:,.;], the characters of RE_URL before the last
UrlChars == UrlEndChars \cup {"?", "!", ":", ",", ".", ";"}

RECURSIVE RunIn(_, _)
\* the length of the longest prefix of s made of characters of S
RunIn(s, S) == IF s = <<>> \/ Head(s) \notin S THEN 0 ELSE 1 + RunIn(Tail(s), S)

RECURSIVE RunNotIn(_, _)
\* the length of the longest prefix of s with no character of S
RunNotIn(s, S) == IF s = <<>> \/ Head(s) \in S THEN 0 ELSE 1 + RunNotIn(Tail(s), S)

\* "://"
COLON_SLASHES == <<":", "/", "/">>

\* the length of what https?:// matches at the head of s, 0 when it does not
SchemeLen(s) ==
    IF StartsWith(s, HTTP \o <<"s">> \o COLON_SLASHES) THEN 8
    ELSE IF StartsWith(s, HTTP \o COLON_SLASHES) THEN 7
    ELSE 0

\* the length of the match of RE_URL at the head of s, 0 when there is none:
\* the longest run of UrlChars that ends on one of UrlEndChars, two at least
match_RE_URL(s) ==
    LET p == SchemeLen(s)
    IN  IF p = 0 THEN 0
        ELSE LET n == RunIn(Drop(s, p), UrlChars)
                 ends == {k \in 2..n : s[p + k] \in UrlEndChars}
             IN  IF ends = {} THEN 0
                 ELSE p + (CHOOSE k \in ends : \A j \in ends : j <= k)

RECURSIVE findall_RE_URL(_)
\* re.findall(RE_URL, content)
findall_RE_URL(content) ==
    IF content = <<>> THEN <<>>
    ELSE LET n == match_RE_URL(content)
         IN  IF n = 0 THEN findall_RE_URL(Tail(content))
             ELSE <<Take(content, n)>> \o findall_RE_URL(Drop(content, n))

\* "//t.me/"
TME == <<"/", "/", "t", ".", "m", "e", "/">>

\* "cdn-telegram.org"
CDN_TELEGRAM == <<"c", "d", "n", "-", "t", "e", "l", "e", "g", "r", "a", "m", ".", "o", "r", "g">>

\* what fetch_content returns for a page that could not be fetched
FetchNone == [ok |-> FALSE, text |-> <<>>]

\* what fetch_content returns for a 200 response
Fetched(text) == [ok |-> TRUE, text |-> text]

\* get_channel_urls, from what fetch_content returned
get_channel_urls(content) ==
    IF content.ok /\ content.text # <<>>
    THEN SelectSeq(findall_RE_URL(content.text),
                   LAMBDA u : ~Contains(u, TME) /\ ~Contains(u, CDN_TELEGRAM))
    ELSE <<>>

RECURSIVE Concat(_)
\* all_urls after the extend of every channel
Concat(lists) == IF lists = <<>> THEN <<>> ELSE Head(lists) \o Concat(Tail(lists))

\* list(set(all_urls)): the distinct elements, in any order
ListsOfSet(S) == {s \in [1..Cardinality(S) -> S] : Range(s) = S}

RECURSIVE search_url(_)
\* re.search(r'https?://[^\s]+', item): the match, or <<>> when there is none
search_url(item) ==
    IF item = <<>> THEN <<>>
    ELSE LET p == SchemeLen(item)
             n == IF p = 0 THEN 0 ELSE RunNotIn(Drop(item, p), Whitespace)
         IN  IF n > 0 THEN Take(item, p + n) ELSE search_url(Tail(item))

RECURSIVE existing_of(_, _)
\* the (url, category) pairs of one bucket of AirportSub, ClashSub, V2Sub
existing_of(bucket, category) ==
    IF bucket = <<>> THEN <<>>
    ELSE (IF Strip(Head(bucket)) # <<>>
          THEN <<[url |-> Strip(Head(bucket)), category |-> category]>> ELSE <<>>)
         \o existing_of(Tail(bucket), category)

RECURSIVE existing_of_play(_)
\* the (url, category) pairs of the PlayList bucket
existing_of_play(bucket) ==
    IF bucket = <<>> THEN <<>>
    ELSE (IF Strip(Head(bucket)) # <<>> /\ search_url(Head(bucket)) # <<>>
          THEN <<[url |-> search_url(Head(bucket)), category |-> "PlayList"]>> ELSE <<>>)
         \o existing_of_play(Tail(bucket))

\* all_existing_urls of validate_existing_subscriptions
all_existing_urls(items) ==
    existing_of(Get(items, "AirportSub"), "AirportSub")
    \o existing_of(Get(items, "ClashSub"), "ClashSub")
    \o existing_of(Get(items, "V2Sub"), "V2Sub")
    \o existing_of_play(Get(items, "PlayList"))

\* {"机场订阅": [], "clash订阅": [], "v2订阅": [], "开心玩耍": []}
empty_buckets == [AirportSub |-> <<>>, ClashSub |-> <<>>, V2Sub |-> <<>>, PlayList |-> <<>>]

\* f'{info} {url}'
play_entry(info, url) == info \o <<" ">> \o url

\* the body of the for loop of validate_existing_subscriptions
collect_existing(valid_existing, url, result) ==
    IF result.type = "AirportSub"
    THEN [valid_existing EXCEPT
             !.AirportSub = Append(@, url),
             !.PlayList = IF result.info # <<>> THEN Append(@, play_entry(result.info, url))
                          ELSE @]
    ELSE IF result.type = "ClashSub"
    THEN [valid_existing EXCEPT !.ClashSub = Append(@, url)]
    ELSE IF result.type = "V2Sub"
    THEN [valid_existing EXCEPT !.V2Sub = Append(@, url)]
    ELSE valid_existing

\* bool(res) for what a probe returns: None and the empty string, which
\* url_check_valid returns for the url '', are false, a dict of sub_check is true
truthy(res) == res.type # "None" /\ (res.type = "valid" => res.url # <<>>)

\* if res: results.append(res)
collect(results, res) == IF truthy(res) THEN Append(results, res) ELSE results

\* [res["url"] for res in new_results if res and res["type"] == type]
urls_of_type(new_results, type) ==
    LET sel == SelectSeq(new_results, LAMBDA res : res.type = type)
    IN  [i \in 1..Len(sel) |-> sel[i].url]

\* new_play of main
new_play_of(new_results) ==
    LET sel == SelectSeq(new_results, LAMBDA res : res.type = "AirportSub" /\ res.info # <<>>)
    IN  [i \in 1..Len(sel) |-> play_entry(sel[i].info, sel[i].url)]

\* merged_subs, merged_clash, merged_v2, merged_play of main
merged_of(valid_existing, new_results) ==
    [AirportSub |-> merge_sorted(valid_existing.AirportSub, urls_of_type(new_results, "AirportSub")),
     ClashSub |-> merge_sorted(valid_existing.ClashSub, urls_of_type(new_results, "ClashSub")),
     V2Sub |-> merge_sorted(valid_existing.V2Sub, urls_of_type(new_results, "V2Sub")),
     PlayList |-> merge_sorted(valid_existing.PlayList, new_play_of(new_results))]

\* one bucket of final_config: final_..._deduped
final_bucket(merged_list) == deduplicate_urls_by_domain(merged_list)

\* final_config of main: the four deduplicated buckets and the channel list
final_config_of(items, merged) ==
    [category \in DOMAIN merged |-> final_bucket(merged[category])]
    @@ [tgchannel |-> Get(items, "tgchannel")]

\* total_original of main: sum(original_counts.values())
total_original_of(items) ==
    Len(Get(items, "AirportSub")) + Len(Get(items, "ClashSub"))
    + Len(Get(items, "V2Sub")) + Len(Get(items, "PlayList"))

\* valid_urls of check_nodes: the URLs url_check_valid returned
urls_of(results) == [i \in 1..Len(results) |-> results[i].url]

\* if valid: valid = deduplicate_urls_by_domain(valid)
deduplicated_if_any(valid) ==
    IF valid # <<>> THEN deduplicate_urls_by_domain(valid) ELSE valid

RECURSIVE Join(_)
\* "\n".join(list)
Join(list) ==
    IF list = <<>> THEN <<>>
    ELSE IF Len(list) = 1 THEN list[1]
    ELSE list[1] \o <<"\n">> \o Join(Tail(list))

\* the file after open(path, 'w', encoding='utf-8') and f.write(text): the
\* text, or nothing when the text does not encode and f.write raises
written(text) == IF encode_raises(text) THEN <<>> ELSE text

\* write_url_list(url_list, file_path) raises UnicodeEncodeError
write_url_list_raises(url_list) == encode_raises(Join(url_list))

\* the file after write_url_list(url_list, file_path)
url_list_content(url_list) == written(Join(url_list))

\* "-- play_list --\n\n"
PLAY_HEADER ==
    <<"-", "-", " ", "p", "l", "a", "y", "_", "l", "i", "s", "t", " ", "-", "-", "\n", "\n">>

\* "\n\n-- sub_list --\n\n"
SUB_HEADER ==
    <<"\n", "\n", "-", "-", " ", "s", "u", "b", "_", "l", "i", "s", "t", " ", "-", "-", "\n", "\n">>

\* content of lines 578 to 581
sub_store_text(final_config) ==
    PLAY_HEADER \o Join(final_config.PlayList) \o SUB_HEADER \o Join(final_config.AirportSub)

\* f.write(content) at line 583 raises UnicodeEncodeError
sub_store_raises(final_config) == encode_raises(sub_store_text(final_config))

\* config_sub_store.txt after lines 577 to 583
sub_store_content(final_config) == written(sub_store_text(final_config))

(***************************************************************************)
(* A batch: tasks under a semaphore, consumed as they complete             *)
(***************************************************************************)

\* a task that has not entered async with semaphore yet
Queued == [fn |-> "none", pc |-> "queued"]

\* tasks = [check_single(x) for x in args] under a fresh semaphore
new_batch(fn, target, args) ==
    [fn |-> fn, target |-> target, value |-> semaphore_of(fn),
     tasks |-> [i \in 1..Len(args) |->
                   [url |-> args[i].url, category |-> args[i].category, call |-> Queued]],
     done |-> <<>>, consumed |-> <<>>, results |-> <<>>, valid_existing |-> empty_buckets]

\* a for loop that stops after the first task it awaited
FirstConsumed == Len(batch.consumed) >= 1

\* every task of the batch has been awaited by the for loop over as_completed
Complete == Len(batch.consumed) = Len(batch.tasks)

\* the task after a step of its probe: a probe that has returned or raised
\* leaves async with semaphore and its task is done
after_step(b, i, call) ==
    IF call.pc \in {"returned", "raised"}
    THEN [b EXCEPT !.tasks[i].call = call, !.value = @ + 1, !.done = Append(@, i)]
    ELSE [b EXCEPT !.tasks[i].call = call]

\* a task enters async with semaphore and its probe runs up to its first
\* request. The tasks step as long as the event loop runs them: after an
\* exception has left main as well, until CancelTasks
TaskAcquire ==
    /\ batch.fn # "none"
    /\ run.loop = "running"
    /\ sem_can_acquire(batch.value)
    /\ \E i \in 1..Len(batch.tasks) :
          /\ batch.tasks[i].call.pc = "queued"
          /\ batch' = after_step([batch EXCEPT !.value = @ - 1], i,
                                 IF probe_of(batch.fn) = "sub_check"
                                 THEN sub_check_start(batch.tasks[i].url)
                                 ELSE url_check_start(batch.tasks[i].url, batch.target))
    /\ UNCHANGED <<run, disk>>
    /\ UNCHANGED notRun

\* a clash body that Loon and v2ray take as well: 103 characters
NODE_ANY == BODY_CLASH \o <<"=">> \o Repeat("x", 50)

\* what a request of sub_check comes back with during a run
RunSubResponses ==
    {Timeout, TransportError, Response(404, <<>>, <<>>), Response(503, <<>>, <<>>),
     Response(200, BODY_CLASH, HDR_OK), Response(200, BODY_CLASH, HDR_GB),
     Response(200, BODY_CLASH, <<>>), Response(200, BODY_RAW_SS, <<>>)}

\* what a request of url_check_valid comes back with during a run
RunNodeResponses == {Timeout, Response(200, NODE_49, <<>>), Response(200, NODE_ANY, <<>>)}

\* the request of a task comes back
TaskRespond ==
    /\ batch.fn # "none"
    /\ run.loop = "running"
    /\ \E i \in 1..Len(batch.tasks) :
          /\ batch.tasks[i].call.pc = "request"
          /\ IF probe_of(batch.fn) = "sub_check"
             THEN \E resp \in RunSubResponses :
                     batch' = after_step(batch, i, sub_check_respond(batch.tasks[i].call, resp))
             ELSE \E resp \in RunNodeResponses :
                     batch' = after_step(batch, i, url_check_respond(batch.tasks[i].call, resp))
    /\ UNCHANGED <<run, disk>>
    /\ UNCHANGED notRun

\* the backoff of a task is over
TaskWake ==
    /\ batch.fn # "none"
    /\ run.loop = "running"
    /\ \E i \in 1..Len(batch.tasks) :
          /\ batch.tasks[i].call.pc = "sleep"
          /\ batch' = after_step(batch, i, sub_check_wake(batch.tasks[i].call))
    /\ UNCHANGED <<run, disk>>
    /\ UNCHANGED notRun

\* an exception leaves main
abort(r, error) == [r EXCEPT !.pc = "Aborted", !.aborted_in = r.pc, !.error = error]

\* the batch after res = await coro for the task i, whose probe returned
collected(b, i, res) ==
    [b EXCEPT
        !.done = Tail(@),
        !.consumed = Append(@, i),
        !.results = IF b.fn = "validate_existing_subscriptions" THEN @ ELSE collect(@, res),
        !.valid_existing = IF b.fn = "validate_existing_subscriptions"
                           THEN collect_existing(@, b.tasks[i].url, res)
                           ELSE @]

\* res = await coro: the for loop takes the next completed task. The
\* exception of a task that raised leaves the batch function and main
Collect ==
    /\ run.pc # "Aborted"
    /\ batch.fn # "none"
    /\ batch.done # <<>>
    /\ IF batch.tasks[Head(batch.done)].call.pc = "raised"
       THEN /\ batch' = [batch EXCEPT !.done = Tail(@), !.consumed = Append(@, Head(batch.done))]
            /\ run' = abort(run, "UnicodeEncodeError")
       ELSE /\ batch' = collected(batch, Head(batch.done),
                                  batch.tasks[Head(batch.done)].call.result)
            /\ run' = run
    /\ UNCHANGED disk
    /\ UNCHANGED notRun

\* the batch after asyncio.run has cancelled the tasks that had not ended: a
\* task inside its probe leaves async with semaphore and gives its permit back
cancel_all_tasks(b) ==
    [b EXCEPT
        !.tasks = [i \in 1..Len(b.tasks) |->
                      IF b.tasks[i].call.pc \in {"returned", "raised"} THEN b.tasks[i]
                      ELSE [b.tasks[i] EXCEPT !.call.pc = "cancelled"]],
        !.value = @ + Cardinality({i \in 1..Len(b.tasks) :
                                      b.tasks[i].call.pc \notin {"queued", "returned", "raised"}})]

\* asyncio.run(main()) after main has ended, by its return or by an
\* exception: the loop stops when it has run the callbacks that were
\* scheduled, the tasks that have not ended are cancelled (CancelledError is
\* no Exception: no handler of a probe takes it) and the loop is closed
CancelTasks ==
    /\ run.pc \in {"Done", "Aborted"}
    /\ run.loop = "running"
    /\ run' = [run EXCEPT !.loop = "closed"]
    /\ batch' = cancel_all_tasks(batch)
    /\ UNCHANGED disk
    /\ UNCHANGED notRun

(***************************************************************************)
(* main                                                                    *)
(***************************************************************************)

\* "https://t.me/chan"
CH1 == <<"h", "t", "t", "p", "s", ":", "/", "/", "t", ".", "m", "e", "/", "c", "h", "a", "n">>

\* "https://t.me/chan" and U+0085, which str.strip() removes
CH1_NEL == CH1 \o <<chr(133)>>

\* "http://a.c/x y"
U_x_y == <<"h", "t", "t", "p", ":", "/", "/", "a", ".", "c", "/", "x", " ", "y">>

\* "http://a.c/x", U+0085 and "y"
U_x_nel_y == <<"h", "t", "t", "p", ":", "/", "/", "a", ".", "c", "/", "x", chr(133), "y">>

\* "see http://b.c, https://www.a.c:80/y https://t.me/x"
PAGE1 ==
    <<"s", "e", "e", " ">> \o U_b \o <<",", " ">> \o U_way \o <<" ">>
    \o <<"h", "t", "t", "p", "s", ":", "/", "/", "t", ".", "m", "e", "/", "x">>

\* what fetch_content returns for a channel page
Pages == {FetchNone, Fetched(PAGE1)}

\* a file written by an earlier run
OLD == <<"o", "l", "d">>

\* config.yaml at the start of a run
ConfigFiles ==
    {NoFile, BadFile, File(PyNone),
     File(Dict([tgchannel |-> <<CH1>>])),
     File(Dict([AirportSub |-> <<U_ax>>, ClashSub |-> <<U_b>>, V2Sub |-> <<>>,
                PlayList |-> <<P_ax>>, tgchannel |-> <<>>])),
     File(Dict([AirportSub |-> <<U_ax>>, ClashSub |-> <<>>, V2Sub |-> <<>>,
                PlayList |-> <<>>, tgchannel |-> <<CH1>>])),
     File(Dict([AirportSub |-> <<U_ax, U_way>>, ClashSub |-> <<>>, V2Sub |-> <<>>,
                PlayList |-> <<>>, tgchannel |-> <<>>])),
     File(Dict([AirportSub |-> <<U_ax, U_tab>>, ClashSub |-> <<>>, V2Sub |-> <<>>,
                PlayList |-> <<>>, tgchannel |-> <<>>])),
     File(Dict([AirportSub |-> <<>>, ClashSub |-> <<U_sur, U_b>>, V2Sub |-> <<>>,
                PlayList |-> <<>>, tgchannel |-> <<>>])),
     File(Dict([AirportSub |-> <<>>, ClashSub |-> <<U_x_y, U_x_nel_y>>, V2Sub |-> <<>>,
                PlayList |-> <<>>, tgchannel |-> <<>>])),
     File(Dict([AirportSub |-> <<>>, ClashSub |-> <<>>, V2Sub |-> <<U_b>>,
                PlayList |-> <<>>, tgchannel |-> <<CH1_NEL>>]))}

\* the node checks of main: bucket, target, output file
NodeChecks ==
    <<[bucket |-> "AirportSub", target |-> "loon", file |-> "loon"],
      [bucket |-> "ClashSub", target |-> "clash", file |-> "clash"],
      [bucket |-> "V2Sub", target |-> "v2ray", file |-> "v2"]>>

RunInit ==
    /\ run = [pc |-> "LoadConfig", error |-> "none", aborted_in |-> "none",
              config |-> <<>>, valid_existing |-> empty_buckets, today_urls |-> <<>>,
              new_results |-> <<>>, merged |-> empty_buckets,
              final_config |-> default_config, cat |-> 0, loop |-> "running"]
    /\ \E file \in ConfigFiles :
          disk = [config |-> file, saves |-> 0,
                  out |-> [f \in {"sub_store", "loon", "clash", "v2"} |->
                              [writes |-> 0, content |-> OLD]]]
    /\ batch = BatchIdle
    /\ dedup = DedupIdle
    /\ probe = ProbeIdle
    /\ pool = PoolIdle

\* config = load_yaml_config(config_path) and original_counts
LoadConfig ==
    /\ run.pc = "LoadConfig"
    /\ LET r == load_yaml_config(disk.config)
       IN  run' = IF r.raised # "none" THEN abort(run, r.raised)
                  ELSE IF r.config.type # "dict" THEN abort(run, "AttributeError")
                  ELSE [run EXCEPT !.pc = "ValidateExisting", !.config = r.config.items]
    /\ UNCHANGED <<disk, batch>>
    /\ UNCHANGED notRun

\* validate_existing_subscriptions up to its tasks
ValidateExisting ==
    /\ run.pc = "ValidateExisting"
    /\ batch.fn = "none"
    /\ LET all == all_existing_urls(run.config)
       IN  IF all = <<>>
           THEN /\ run' = [run EXCEPT !.pc = "HarvestNew", !.valid_existing = empty_buckets]
                /\ batch' = batch
           ELSE /\ run' = run
                /\ batch' = new_batch("validate_existing_subscriptions", "", all)
    /\ UNCHANGED disk
    /\ UNCHANGED notRun

\* validate_existing_subscriptions returns valid_existing
ValidateExistingReturn ==
    /\ run.pc = "ValidateExisting"
    /\ batch.fn = "validate_existing_subscriptions"
    /\ Complete
    /\ run' = [run EXCEPT !.pc = "HarvestNew", !.valid_existing = batch.valid_existing]
    /\ batch' = BatchIdle
    /\ UNCHANGED disk
    /\ UNCHANGED notRun

\* today_urls = await update_today_sub(session)
HarvestNew ==
    /\ run.pc = "HarvestNew"
    /\ LET r == load_yaml_config(disk.config)
       IN  IF r.raised # "none" THEN run' = abort(run, r.raised)
           ELSE IF r.config.type # "dict" THEN run' = abort(run, "AttributeError")
           ELSE LET tg_channels == get_config_channels(r.config.items)
                IN  \E pages \in [1..Len(tg_channels) -> Pages] :
                       LET all_urls == Concat([i \in 1..Len(tg_channels) |->
                                                  get_channel_urls(pages[i])])
                       IN  \E today_urls \in ListsOfSet(Range(all_urls)) :
                              run' = [run EXCEPT !.pc = "ClassifyNew",
                                                 !.today_urls = today_urls]
    /\ UNCHANGED <<disk, batch>>
    /\ UNCHANGED notRun

\* check_subscriptions(today_urls) up to its tasks
ClassifyNew ==
    /\ run.pc = "ClassifyNew"
    /\ batch.fn = "none"
    /\ IF run.today_urls = <<>>
       THEN /\ run' = [run EXCEPT !.pc = "MergeAndDedupe", !.new_results = <<>>]
            /\ batch' = batch
       ELSE /\ run' = run
            /\ batch' = new_batch("check_subscriptions", "",
                                  [i \in 1..Len(run.today_urls) |->
                                      [url |-> run.today_urls[i], category |-> ""]])
    /\ UNCHANGED disk
    /\ UNCHANGED notRun

\* check_subscriptions returns results
ClassifyNewReturn ==
    /\ run.pc = "ClassifyNew"
    /\ batch.fn = "check_subscriptions"
    /\ Complete
    /\ run' = [run EXCEPT !.pc = "MergeAndDedupe", !.new_results = batch.results]
    /\ batch' = BatchIdle
    /\ UNCHANGED disk
    /\ UNCHANGED notRun

\* lines 511 to 551: the new lists, the merged lists, final_config;
\* valid_existing, today_urls and new_results are not read after line 527
MergeAndDedupe ==
    /\ run.pc = "MergeAndDedupe"
    /\ run' = [run EXCEPT
          !.pc = "PersistConfig",
          !.merged = merged_of(run.valid_existing, run.new_results),
          !.final_config = final_config_of(run.config,
                                           merged_of(run.valid_existing, run.new_results)),
          !.valid_existing = empty_buckets,
          !.today_urls = <<>>,
          !.new_results = <<>>]
    /\ UNCHANGED <<disk, batch>>
    /\ UNCHANGED notRun

\* lines 553 to 570: the statistics, then save_yaml_config(final_config, config_path)
PersistConfig ==
    /\ run.pc = "PersistConfig"
    /\ IF total_original_of(run.config) = 0
       THEN /\ run' = abort(run, "ZeroDivisionError")
            /\ disk' = disk
       ELSE /\ run' = [run EXCEPT !.pc = "WriteStoreFile"]
            /\ disk' = [disk EXCEPT !.config = save_yaml_config(run.final_config),
                                    !.saves = @ + 1]
    /\ UNCHANGED batch
    /\ UNCHANGED notRun

\* lines 577 to 583: config_sub_store.txt; the merged lists are not read
\* after line 543
WriteStoreFile ==
    /\ run.pc = "WriteStoreFile"
    /\ disk' = [disk EXCEPT !.out["sub_store"] =
                   [writes |-> @.writes + 1, content |-> sub_store_content(run.final_config)]]
    /\ run' = IF sub_store_raises(run.final_config) THEN abort(run, "UnicodeEncodeError")
              ELSE [run EXCEPT !.pc = "ValidateNodes", !.cat = 1, !.merged = empty_buckets]
    /\ UNCHANGED batch
    /\ UNCHANGED notRun

\* the run after the node check of category run.cat
next_check(r) ==
    IF r.cat < Len(NodeChecks) THEN [r EXCEPT !.cat = @ + 1] ELSE [r EXCEPT !.pc = "Done"]

\* if final_config[bucket]: check_nodes(final_config[bucket], target, session) up
\* to its tasks
ValidateNodes ==
    /\ run.pc = "ValidateNodes"
    /\ batch.fn = "none"
    /\ LET c == NodeChecks[run.cat]
           urls == run.final_config[c.bucket]
       IN  IF urls = <<>>
           THEN /\ run' = next_check(run)
                /\ batch' = batch
           ELSE /\ run' = run
                /\ batch' = new_batch("check_nodes", c.target,
                                      [i \in 1..Len(urls) |-> [url |-> urls[i], category |-> ""]])
    /\ UNCHANGED disk
    /\ UNCHANGED notRun

\* check_nodes returns valid_urls: deduplicated when not empty, then written
ValidateNodesReturn ==
    /\ run.pc = "ValidateNodes"
    /\ batch.fn = "check_nodes"
    /\ Complete
    /\ disk' = [disk EXCEPT !.out[NodeChecks[run.cat].file] =
                   [writes |-> @.writes + 1,
                    content |-> url_list_content(deduplicated_if_any(urls_of(batch.results)))]]
    /\ run' = IF write_url_list_raises(deduplicated_if_any(urls_of(batch.results)))
              THEN abort(run, "UnicodeEncodeError")
              ELSE next_check(run)
    /\ batch' = BatchIdle
    /\ UNCHANGED notRun

RunNext ==
    \/ LoadConfig
    \/ ValidateExisting
    \/ ValidateExistingReturn
    \/ HarvestNew
    \/ ClassifyNew
    \/ ClassifyNewReturn
    \/ MergeAndDedupe
    \/ PersistConfig
    \/ WriteStoreFile
    \/ ValidateNodes
    \/ ValidateNodesReturn
    \/ TaskAcquire
    \/ TaskRespond
    \/ TaskWake
    \/ CancelTasks
    \/ Collect


(***************************************************************************)
(* Properties of a run                                                     *)
(***************************************************************************)

RECURSIVE NonNoneResults(_)
\* the results that are not None of the tasks in order, in that order
NonNoneResults(order) ==
    IF order = <<>> THEN <<>>
    ELSE (IF batch.tasks[Head(order)].call.result.type # "None"
          THEN <<batch.tasks[Head(order)].call.result>> ELSE <<>>)
         \o NonNoneResults(Tail(order))

\* the tasks that have completed, in the order they completed
Completed == batch.consumed \o batch.done

\* the probe of task i failed inside its HTTP calls: it returned None after
\* at least one request
FailedInHttp(i) ==
    /\ batch.tasks[i].call.pc = "returned"
    /\ batch.tasks[i].call.result = None
    /\ batch.tasks[i].call.calls # <<>>

\* in a batch of check_subscriptions or check_nodes: the results are the
\* results that are not None of the tasks consumed, each once, and a task is
\* consumed once, after its probe ended; a probe that failed inside its HTTP
\* calls has ended by returning, and only a probe that ended by raising
\* before any request (quote, line 232) has no result to collect
BatchResultsExact ==
    batch.fn \in {"check_subscriptions", "check_nodes"} =>
        /\ batch.results = NonNoneResults(batch.consumed)
        /\ \A i, j \in 1..Len(Completed) : i # j => Completed[i] # Completed[j]
        /\ \A i \in 1..Len(Completed) :
              \/ batch.tasks[Completed[i]].call.pc = "returned"
              \/ /\ batch.tasks[Completed[i]].call.pc = "raised"
                 /\ batch.tasks[Completed[i]].call.calls = <<>>

\* a step of a batch changes one task at most, whatever its probe came back
\* with, and the batch returns only when every task has been consumed
BatchStepIsolated ==
    batch.fn \in {"check_subscriptions", "check_nodes"} =>
        /\ batch'.fn = batch.fn =>
              \A i, j \in 1..Len(batch.tasks) :
                  (i # j /\ batch'.tasks[i] # batch.tasks[i]) => batch'.tasks[j] = batch.tasks[j]
        /\ batch'.fn # batch.fn => Complete
        /\ (batch'.fn # batch.fn /\ batch.fn = "check_subscriptions") =>
              run'.new_results = batch.results
        /\ (batch.done # <<>> /\ batch'.consumed = Append(batch.consumed, Head(batch.done))
               /\ FailedInHttp(Head(batch.done))) =>
              /\ run' = run
              /\ batch'.results = batch.results

\* a batch in which a probe failed inside its HTTP calls is not abandoned:
\* the run goes on, so that its siblings run to their end
BatchNotAbandoned ==
    (batch.fn \in {"check_subscriptions", "check_nodes"}
       /\ \E i \in 1..Len(batch.tasks) : FailedInHttp(i)) => run.pc # "Aborted"

\* C4: in a batch, a probe that times out, gets an error status or raises
\* inside its HTTP call yields None for itself only: its siblings are left as
\* they are and run to their end, and the list the batch returns holds the
\* results that are not None of all its probes, each exactly once.
C4_FailureIsolatedInBatch ==
    [](BatchResultsExact /\ BatchNotAbandoned) /\ [][BatchStepIsolated]_vars

\* C5: a run whose configuration was loaded is never aborted, whatever the
\* buckets hold and whatever fails on the network: it saves the
\* configuration and reaches Done.
C5_RunNeverAborted ==
    /\ run.pc = "Aborted" => run.aborted_in = "LoadConfig"
    /\ run.pc = "Done" => disk.saves = 1

\* C6: when config.yaml exists but cannot be parsed, or parses to something
\* that is not a record, the run is not aborted and goes on with the default
\* structure of five empty fields.
C6_MalformedFallsBackToDefault ==
    (disk.config.exists /\ (disk.config.loads # "ok" \/ disk.config.value.type # "dict")) =>
        /\ run.pc # "Aborted"
        /\ run.pc # "LoadConfig" => run.config = default_config

\* the key of an entry in deduplicate_urls_by_domain: its DomainKey
DomainKey(entry) == dict_key(entry)

\* C9: in each of the four buckets of the configuration that was saved, no
\* string appears twice and no two entries have the same DomainKey.
C9_PersistedBucketsDeduplicated ==
    disk.saves > 0 =>
        \A c \in 1..Len(Categories) :
            LET bucket == disk.config.value.items[Categories[c]]
            IN  \A i, j \in 1..Len(bucket) :
                    i # j => /\ bucket[i] # bucket[j]
                             /\ DomainKey(bucket[i]) # DomainKey(bucket[j])

\* the place of a position of main in the order of its phases
PhaseIndex(pc) ==
    CASE pc = "LoadConfig" -> 1
      [] pc = "ValidateExisting" -> 2
      [] pc = "HarvestNew" -> 3
      [] pc = "ClassifyNew" -> 4
      [] pc = "MergeAndDedupe" -> 5
      [] pc = "PersistConfig" -> 6
      [] pc = "WriteStoreFile" -> 7
      [] pc = "ValidateNodes" -> 8
      [] pc = "Done" -> 9
      [] pc = "Aborted" -> 10

\* the configuration is saved once at most, after the merge, with no probe in
\* flight while the merged buckets are built, before the store file and before
\* any node probe; and a run that has ended has saved it
PersistedOnceInOrder ==
    /\ disk.saves <= 1
    /\ run.pc \in {"Done", "Aborted"} => disk.saves = 1
    /\ disk.saves = 1 => PhaseIndex(run.pc) > PhaseIndex("PersistConfig")
    /\ run.pc \in {"MergeAndDedupe", "PersistConfig"} => batch.fn = "none"
    /\ disk.out["sub_store"].writes > 0 => disk.saves = 1
    /\ batch.fn = "check_nodes" => disk.saves = 1 /\ disk.out["sub_store"].writes = 1

\* C10: within a run the configuration is saved exactly once, after
\* MergeAndDedupe, when no classification probe is in flight, before the store
\* file is written and before any node probe is issued; and main never goes
\* back to an earlier phase.
C10_PersistedExactlyOnceInOrder ==
    [](PersistedOnceInOrder) /\ [][PhaseIndex(run'.pc) >= PhaseIndex(run.pc)]_vars


\* node validation is over for every category: main is done, or no batch of
\* check_nodes runs and the categories still to come are empty
AllNodesValidated ==
    \/ run.pc = "Done"
    \/ /\ run.pc = "ValidateNodes"
       /\ batch.fn = "none"
       /\ \A k \in run.cat..Len(NodeChecks) : run.final_config[NodeChecks[k].bucket] = <<>>

\* C11 as stated: no node output file (loon, clash, v2) is written until node
\* validation has completed for every category.
C11_NoOutputBeforeAllValidated ==
    (\E k \in 1..Len(NodeChecks) : disk.out[NodeChecks[k].file].writes > 0) => AllNodesValidated

\* a node output file is written once at most, and only when the node check
\* of its own category is over; while that check runs the file is not written
OutputAfterOwnValidation ==
    \A k \in 1..Len(NodeChecks) :
        LET f == NodeChecks[k].file
        IN  /\ disk.out[f].writes <= 1
            /\ disk.out[f].writes = 1 =>
                   \/ run.pc = "Done"
                   \/ /\ run.pc = "ValidateNodes" \/ run.aborted_in = "ValidateNodes"
                      /\ run.cat > k
            /\ (run.pc = "ValidateNodes" /\ run.cat = k) => disk.out[f].writes = 0

\* a step that writes a node output file ends the node check of its category:
\* every probe of that batch has returned and has been consumed
OutputWrittenAtOwnReturn ==
    \A k \in 1..Len(NodeChecks) :
        disk'.out[NodeChecks[k].file] # disk.out[NodeChecks[k].file] =>
            /\ run.pc = "ValidateNodes"
            /\ run.cat = k
            /\ batch.fn = "check_nodes"
            /\ batch.target = NodeChecks[k].target
            /\ Len(batch.consumed) = Len(batch.tasks)
            /\ \A i \in 1..Len(batch.tasks) : batch.tasks[i].call.pc = "returned"
            /\ batch'.fn = "none"

\* C11, amended: the node output file of a category is written when node
\* validation has completed for that category, once, category by category:
\* the file of loon can be written before the clash and v2 checks start.
C11_OutputAfterOwnCategoryValidated ==
    [](OutputAfterOwnValidation) /\ [][OutputWrittenAtOwnReturn]_vars

\* config_loon.txt is written and a probe of the clash check is waiting for
\* its response.
C11_Witness ==
    /\ disk.out["loon"].writes = 1
    /\ disk.out["clash"].writes = 0
    /\ run.pc = "ValidateNodes"
    /\ batch.fn = "check_nodes"
    /\ batch.target = "clash"
    /\ \E i \in 1..Len(batch.tasks) : batch.tasks[i].call.pc = "request"


(***************************************************************************)
(* Properties of the classification of one 200 response                    *)
(***************************************************************************)

\* the response sub_check was given and the verdict it returned
Classified == probe.task.fn = "sub_check" /\ probe.task.pc = "returned" /\ Len(probe.log) = 1

\* the body has at least 10 characters after trimming
LongEnough(text) == Len(Strip(text)) >= 10

\* sub_check has been given one answer, a 200 response
Answered200 ==
    /\ probe.task.fn = "sub_check"
    /\ Len(probe.log) = 1
    /\ probe.log[1].kind = "response"
    /\ probe.log[1].status = 200

\* sub_check has returned a verdict of this type
Emitted(type) == probe.task.pc = "returned" /\ probe.task.result.type = type

\* the usage-info header carries three integers with total > 0 and a
\* remaining quota above 0
QualifyingHeader(sub_info) ==
    LET nums == findall_digits(sub_info)
    IN  /\ Len(nums) >= 3
        /\ IntegerOf(nums[3]) # <<>>
        /\ BigLess(BigAdd(IntegerOf(nums[1]), IntegerOf(nums[2])), IntegerOf(nums[3]))

\* C12: a 200 response with a body of at least 10 trimmed characters and a
\* usage-info header carrying at least three integers (uploaded, downloaded,
\* total) is classified AirportSub exactly when total > 0 and total -
\* uploaded - downloaded > 0; with a remaining quota of 0 or less it is not
\* AirportSub.
C12_AirportIffQuotaRemains ==
    (/\ Answered200
     /\ LongEnough(probe.log[1].text)
     /\ Len(findall_digits(probe.log[1].sub_info)) >= 3)
        => (Emitted("AirportSub") <=> QualifyingHeader(probe.log[1].sub_info))


\* info of a V2Sub verdict found in a base64 body: "包含 k 个节点 (base64)"
base64_summary(k) == nodes_info(k) \o <<" ">> \o B64TAG

\* C13: a body that is the base64 of k vmess:// URIs, one per line, with no
\* usage-info header and no proxies marker, is classified V2Sub with a
\* base64 summary whose node count is k (2 for "vmess://abc\nvmess://def").
C13_Base64VmessCountsEachOnce ==
    Classified =>
        /\ \A k \in 1..MaxNodes :
              (probe.log[1].text = B64Encode(Lines(VMESS_URI, k)) /\ probe.log[1].sub_info = <<>>)
                  => probe.task.result = [url |-> probe.task.url, type |-> "V2Sub", info |-> base64_summary(k)]
        /\ (probe.log[1].text = BODY_B64_VMESS /\ probe.log[1].sub_info = <<>>)
              => probe.task.result = [url |-> probe.task.url, type |-> "V2Sub", info |-> base64_summary(2)]


\* info of a V2Sub verdict found in the body as it is: "包含 k 个节点 (原始)"
raw_summary(k) == nodes_info(k) \o <<" ", "(", "U539F", "U59CB", ")">>

\* the body, trimmed and without line breaks, is more than 20 characters of
\* valid base64 whose decoding holds a scheme prefix or a configuration keyword
DecodesToNodes(text) ==
    LET text_clean == RemoveChar(RemoveChar(Strip(text), "\n"), "\r")
        dec == b64decode(text_clean)
        decoded == utf8_ignore(dec.bytes)
    IN  /\ Len(text_clean) > 20
        /\ dec.ok
        /\ \/ \E i \in 1..Len(protocols) : Contains(decoded, protocols[i])
           \/ \E keyword \in config_keywords : Contains(Lower(decoded), keyword)

\* the response has no usage-info header, no proxies marker, no base64
\* reading, k occurrences of "ss://" and no other scheme prefix
RawSsBody(resp, k) ==
    /\ resp.sub_info = <<>>
    /\ ~Contains(resp.text, PROXIES)
    /\ ~DecodesToNodes(resp.text)
    /\ CountSub(resp.text, SS) = k
    /\ \A i \in 2..Len(protocols) : ~Contains(resp.text, protocols[i])

\* C14 as stated: a body with no usage-info header, no proxies marker and no
\* base64 reading that holds k occurrences of "ss://" and no other scheme
\* prefix is classified V2Sub with the raw summary and node count k.
C14_RawSsCountsK ==
    Classified =>
        \A k \in 1..(2 * MaxNodes) :
            RawSsBody(probe.log[1], k)
                => probe.task.result = [url |-> probe.task.url, type |-> "V2Sub", info |-> raw_summary(k)]

\* C14, amended: such a body of at least 10 trimmed characters is classified
\* V2Sub with the raw summary and node count k; "ss://xyz some other text
\* ss://abc" gives 2. A shorter body gets no verdict.
C14_LongRawSsCountsK ==
    Classified =>
        \A k \in 1..(2 * MaxNodes) :
            RawSsBody(probe.log[1], k)
                => probe.task.result =
                       IF LongEnough(probe.log[1].text)
                       THEN [url |-> probe.task.url, type |-> "V2Sub", info |-> raw_summary(k)]
                       ELSE None

\* "ss://xyz some other text ss://abc" was classified with 2 raw nodes
C14_Witness ==
    /\ Classified
    /\ RawSsBody(probe.log[1], 2)
    /\ probe.log[1].text = BODY_RAW_SS
    /\ probe.task.result.info = raw_summary(2)


\* the body holds "proxies:", one of "name:" and "server:", and "- name:"
ClashBody(text) ==
    /\ Contains(text, PROXIES)
    /\ Contains(text, NAME) \/ Contains(text, SERVER)
    /\ Contains(text, DASHNAME)

\* C15: without a qualifying usage-info header a 200 response is classified
\* ClashSub exactly when its body contains "proxies:", at least one of
\* "name:" and "server:", and at least one "- name:"; the reported node
\* count is the number of "- name:" occurrences.
C15_ClashIffMarkers ==
    (Answered200 /\ ~QualifyingHeader(probe.log[1].sub_info)) =>
        /\ Emitted("ClashSub") <=> ClashBody(probe.log[1].text)
        /\ ClashBody(probe.log[1].text) =>
               probe.task.result.info = nodes_info(CountSub(probe.log[1].text, DASHNAME))


\* the URLs of the entries of one list of valid_existing
ValidatedUrls(category) ==
    {search_url(batch.valid_existing[category][n]) : n \in 1..Len(batch.valid_existing[category])}

\* the URLs the loaded configuration stored in one category
StoredUrls(category) ==
    {batch.tasks[i].url : i \in {j \in 1..Len(batch.tasks) : batch.tasks[j].category = category}}

\* C16: when validate_existing_subscriptions has consumed every probe, each
\* category's still-valid list holds only URLs the loaded configuration
\* stored in that same category, and a stored URL whose classification
\* returned no verdict is in no validated list.
C16_StillValidWithinStoredCategory ==
    (batch.fn = "validate_existing_subscriptions" /\ Complete) =>
        /\ \A category \in DOMAIN batch.valid_existing :
               ValidatedUrls(category) \subseteq StoredUrls(category)
        /\ \A i \in 1..Len(batch.tasks) :
               batch.tasks[i].call.result = None =>
                   \A category \in DOMAIN batch.valid_existing :
                       batch.tasks[i].url \notin ValidatedUrls(category)


\* the URLs of a file written by write_url_list
UrlsWritten(content) == IF content = <<>> THEN <<>> ELSE Split(content, "\n")

\* each node output file written in this run holds only URLs of its bucket
\* of the configuration that was saved, no two of them with the same DomainKey
OutputsWithinPersisted ==
    \A k \in 1..Len(NodeChecks) :
        disk.out[NodeChecks[k].file].writes > 0 =>
            LET urls == UrlsWritten(disk.out[NodeChecks[k].file].content)
                bucket == disk.config.value.items[NodeChecks[k].bucket]
            IN  /\ disk.saves > 0
                /\ \A n \in 1..Len(urls) : \E b \in 1..Len(bucket) : bucket[b] = urls[n]
                /\ \A m, n \in 1..Len(urls) : m # n => DomainKey(urls[m]) # DomainKey(urls[n])

\* the step that writes a node output file writes URLs whose probe in the
\* batch of that category's target returned the URL from a request to one of
\* the render endpoints
OutputsWereConfirmed ==
    \A k \in 1..Len(NodeChecks) :
        disk'.out[NodeChecks[k].file] # disk.out[NodeChecks[k].file] =>
            LET urls == UrlsWritten(disk'.out[NodeChecks[k].file].content)
            IN  /\ batch.fn = "check_nodes"
                /\ batch.target = NodeChecks[k].target
                /\ \A n \in 1..Len(urls) :
                       \E i \in 1..Len(batch.tasks) :
                           LET call == batch.tasks[i].call
                           IN  /\ batch.tasks[i].url = urls[n]
                               /\ call.pc = "returned"
                               /\ call.result = [None EXCEPT !.url = urls[n], !.type = "valid"]
                               /\ \E h \in 1..Len(CHECK_URL_LIST) :
                                      call.calls[Len(call.calls)] =
                                          check_node_url(CHECK_URL_LIST[h], NodeChecks[k].target,
                                                         quote(urls[n]))

\* C17: every URL written to a per-category node output file was confirmed
\* in this run by at least one render endpoint for the category's target and
\* is in the corresponding bucket of the configuration that was saved; no
\* output file holds two URLs with the same DomainKey.
C17_OutputsConfirmedAndPersisted ==
    [](OutputsWithinPersisted) /\ [][OutputsWereConfirmed]_vars


\* the URLs of the entries of one bucket of the configuration that was saved
PersistedUrls(category) ==
    LET bucket == disk.config.value.items[category]
    IN  {cleaned_url(bucket[n]) : n \in 1..Len(bucket)}

\* C18: in the configuration that was saved, the URLs of the PlayList
\* entries are exactly the URLs of the AirportSub bucket.
C18_PlayListMirrorsAirportSub ==
    disk.saves > 0 => PersistedUrls("PlayList") = PersistedUrls("AirportSub")


(***************************************************************************)
(* Properties of one call of sub_check: terminal statuses and short bodies *)
(***************************************************************************)

\* the call ended with no verdict on response j, which was its last
EndedAt(j) ==
    /\ j = Len(probe.log)
    /\ Len(probe.task.calls) = j
    /\ probe.task.pc = "returned"
    /\ probe.task.result = None

\* C19 as stated: a response with status 403, 404, 410 or any 5xx status is
\* never retried: sub_check ends with no verdict after that response.
C19_Any5xxNeverRetried ==
    probe.task.fn = "sub_check" =>
        \A j \in 1..Len(probe.log) :
            (probe.log[j].kind = "response"
             /\ (probe.log[j].status \in {403, 404, 410} \/ probe.log[j].status \in 500..599))
                => EndedAt(j)

\* C19, amended: a response with status 403, 404, 410 or 500 is never
\* retried: sub_check ends with no verdict after that response. Any other
\* 5xx status (502, 503) on the first request is followed by one backoff and
\* a second request.
C19_ListedStatusesNeverRetried ==
    probe.task.fn = "sub_check" =>
        /\ \A j \in 1..Len(probe.log) :
               (probe.log[j].kind = "response" /\ probe.log[j].status \in {403, 404, 410, 500})
                   => EndedAt(j)
        /\ (Len(probe.log) >= 1 /\ probe.log[1].kind = "response" /\ probe.log[1].status \in 501..599)
               => /\ probe.task.sleeps = 1
                  /\ probe.task.pc # "sleep" => Len(probe.task.calls) = 2

\* a 502 was retried and the second request came back with a 500, which
\* ended the call
C19_Witness ==
    /\ probe.task.fn = "sub_check"
    /\ Len(probe.log) = 2
    /\ probe.log[1] = Response(502, <<>>, <<>>)
    /\ probe.log[2] = Response(500, <<>>, <<>>)
    /\ EndedAt(2)
    /\ probe.task.sleeps = 1


\* C20: a 200 response whose body is empty or has fewer than 10 characters
\* after trimming ends sub_check at once with no verdict, no backoff and no
\* second request, whatever the usage-info header.
C20_ShortBodyEndsWithoutVerdict ==
    (probe.task.fn = "sub_check" /\ Len(probe.log) = 1 /\ probe.log[1].kind = "response"
     /\ probe.log[1].status = 200 /\ ~LongEnough(probe.log[1].text))
        => /\ probe.task.pc = "returned"
           /\ probe.task.result = None
           /\ Len(probe.task.calls) = 1
           /\ probe.task.sleeps = 0

\* the body "short" under the header (100, 200, 1000) ended the call with no
\* verdict
C20_Witness ==
    /\ Classified
    /\ probe.log[1] = Response(200, BODY_SHORT, Header(100, 200, 1000))
    /\ probe.task.result = None
    /\ Len(probe.task.calls) = 1


\* s.endswith(t)
EndsWith(s, t) == Len(s) >= Len(t) /\ Drop(s, Len(s) - Len(t)) = t

\* the body holds one of the scheme prefixes as it is
RawBody(text) == \E i \in 1..Len(protocols) : Contains(text, protocols[i])

\* the check a verdict came from: its type, and for V2Sub the tag of its info
Verdict(result) ==
    IF result = None THEN "none"
    ELSE IF result.type = "V2Sub"
    THEN (IF EndsWith(result.info, B64TAG) THEN "V2Sub base64" ELSE "V2Sub raw")
    ELSE result.type

\* the earliest check of the order AirportSub, ClashSub, V2Sub via base64,
\* V2Sub raw that the response qualifies for
FirstMatch(resp) ==
    IF QualifyingHeader(resp.sub_info) THEN "AirportSub"
    ELSE IF ClashBody(resp.text) THEN "ClashSub"
    ELSE IF DecodesToNodes(resp.text) THEN "V2Sub base64"
    ELSE IF RawBody(resp.text) THEN "V2Sub raw"
    ELSE "none"

\* C21: for a body of at least 10 trimmed characters sub_check returns the
\* verdict of the earliest check, in the order AirportSub, ClashSub, V2Sub
\* via base64, V2Sub raw, that the response qualifies for: the first match
\* wins, the raw verdict is given only when base64 gave none, and the call
\* returns one verdict at most.
C21_FirstMatchWins ==
    (Answered200 /\ LongEnough(probe.log[1].text)) =>
        /\ Verdict(probe.task.result) = FirstMatch(probe.log[1])
        /\ probe.task.result # None => probe.task.result.url = probe.task.url
        /\ Verdict(probe.task.result) = "V2Sub raw" => ~DecodesToNodes(probe.log[1].text)


(***************************************************************************)
(* Properties of one call of url_check_valid                               *)
(***************************************************************************)

\* the check of the target on the body of a response
TargetCheck(target, text) ==
    IF target = "clash"
    THEN Contains(text, PROXIES) /\ (Contains(text, NAME) \/ Contains(text, SERVER))
         /\ Contains(text, DASHNAME)
    ELSE IF target = "loon"
    THEN Contains(text, LOON_PROXY) \/ Contains(text, <<"=">>)
    ELSE Len(Strip(text)) > 100

\* the response is a success of a node-validation probe
ProbeSucceeds(target, resp) ==
    /\ resp.kind = "response"
    /\ resp.status = 200
    /\ Len(Strip(resp.text)) >= 50
    /\ TargetCheck(target, resp.text)

\* C22: in url_check_valid a response that fails (a status other than 200, a
\* short or implausible body, a timeout, an exception) does not end the call
\* while an endpoint is left: the next endpoint of CHECK_URL_LIST is asked;
\* no endpoint is asked twice; the call returns None exactly when all the
\* endpoints were asked and none satisfied the check.
C22_FailureMovesToNextEndpoint ==
    probe.task.fn = "url_check_valid" =>
        LET t == probe.task
            n == Len(probe.log)
        IN  /\ (n >= 1 /\ ~ProbeSucceeds(t.target, probe.log[n]) /\ n < Len(CHECK_URL_LIST)) =>
                   /\ t.pc = "request"
                   /\ Len(t.calls) = n + 1
                   /\ t.calls[n + 1] = check_node_url(CHECK_URL_LIST[n + 1], t.target, quote(t.url))
            /\ \A i, j \in 1..Len(t.calls) : i # j => t.calls[i] # t.calls[j]
            /\ t.pc = "returned" =>
                   ((t.result = None) <=>
                        /\ n = Len(CHECK_URL_LIST)
                        /\ Len(t.calls) = Len(CHECK_URL_LIST)
                        /\ \A k \in 1..n : ~ProbeSucceeds(t.target, probe.log[k]))

\* a 404, a timeout, an exception and a short body: four endpoints asked, None
C22_Witness ==
    /\ probe.task.fn = "url_check_valid"
    /\ probe.log = <<Response(404, <<>>, <<>>), Timeout, TransportError, Response(200, NODE_49, <<>>)>>
    /\ Len(probe.task.calls) = 4
    /\ probe.task.pc = "returned"
    /\ probe.task.result = None

\* C23: a response to a node-validation probe makes url_check_valid return
\* the URL exactly when its status is 200, its trimmed body has at least 50
\* characters and the check of the target passes: for clash "proxies:", one
\* of "name:" and "server:", and "- name:"; for loon "[Proxy]" or "="; for
\* v2ray or any other target a trimmed body of more than 100 characters.
C23_ProbeSucceedsIffPlausible ==
    probe.task.fn = "url_check_valid" =>
        \A k \in 1..Len(probe.log) :
            ProbeSucceeds(probe.task.target, probe.log[k])
                <=> /\ k = Len(probe.log)
                    /\ probe.task.pc = "returned"
                    /\ probe.task.result = [None EXCEPT !.url = probe.task.url, !.type = "valid"]

\* for a target other than clash, loon and v2ray a body of 100 characters
\* failed and a body of 101 characters succeeded
C23_Witness ==
    /\ probe.task.fn = "url_check_valid"
    /\ probe.task.target = "surge"
    /\ probe.log = <<Response(200, NODE_100, <<>>), Response(200, NODE_LONG, <<>>)>>
    /\ probe.task.pc = "returned"
    /\ probe.task.result.type = "valid"


\* the node check of category k is over
CheckedPast(k) == run.pc = "Done" \/ (run.pc = "ValidateNodes" /\ run.cat > k)

\* once the check of a category is over, its output file is as the earlier
\* run left it when the category is empty, and was written once otherwise;
\* a batch of node probes is for a category that is not empty
EmptyCategoryLeftAlone ==
    /\ \A k \in 1..Len(NodeChecks) :
           CheckedPast(k) =>
               IF run.final_config[NodeChecks[k].bucket] = <<>>
               THEN disk.out[NodeChecks[k].file] = [writes |-> 0, content |-> OLD]
               ELSE disk.out[NodeChecks[k].file].writes = 1
    /\ batch.fn = "check_nodes" =>
           /\ run.pc = "ValidateNodes" \/ run.aborted_in = "ValidateNodes"
           /\ batch.target = NodeChecks[run.cat].target
           /\ run.final_config[NodeChecks[run.cat].bucket] # <<>>
           /\ Len(batch.tasks) = Len(run.final_config[NodeChecks[run.cat].bucket])

\* a step that starts a batch of node probes or writes a node output file is
\* for a category that is not empty, and a file is written empty when no
\* probe of the batch returned a URL
WrittenEmptyWhenNoneConfirmed ==
    \A k \in 1..Len(NodeChecks) :
        disk'.out[NodeChecks[k].file] # disk.out[NodeChecks[k].file] =>
            /\ run.final_config[NodeChecks[k].bucket] # <<>>
            /\ disk'.out[NodeChecks[k].file].writes = disk.out[NodeChecks[k].file].writes + 1
            /\ (\A i \in 1..Len(batch.tasks) : batch.tasks[i].call.result = None)
                   => disk'.out[NodeChecks[k].file].content = <<>>

\* the node check of category k ended with the run: every probe of its batch
\* has ended and none has a URL
EndedUnconfirmed(k) ==
    /\ run.pc = "Aborted" /\ run.aborted_in = "ValidateNodes" /\ run.cat = k
    /\ batch.fn = "check_nodes"
    /\ \A i \in 1..Len(batch.tasks) :
          /\ batch.tasks[i].call.pc \in {"returned", "raised"}
          /\ batch.tasks[i].call.result = None

\* when the node check of a category that is not empty has ended and none of
\* its probes has a URL, the output file was written once, empty
NoneConfirmedWrittenEmpty ==
    \A k \in 1..Len(NodeChecks) :
        (EndedUnconfirmed(k) /\ run.final_config[NodeChecks[k].bucket] # <<>>)
            => disk.out[NodeChecks[k].file] = [writes |-> 1, content |-> <<>>]

\* C24: for an empty merged category no node-validation probe is issued and
\* its output file is not written in this run: it keeps the content an
\* earlier run left; for a category that is not empty and has no confirmed
\* URL the output file is written with empty content.
C24_EmptyCategoryNotWritten ==
    [](EmptyCategoryLeftAlone /\ NoneConfirmedWrittenEmpty)
    /\ [][WrittenEmptyWhenNoneConfirmed]_vars


\* C25: from the moment config.yaml has been loaded, the channel list of
\* config.yaml is the channel list that was loaded, before and after the
\* configuration is saved, whatever was harvested, classified or dropped.
C25_ChannelListUnchanged ==
    (run.pc # "LoadConfig" /\ run.aborted_in # "LoadConfig") =>
        LET now == load_yaml_config(disk.config)
        IN  /\ now.raised = "none"
            /\ now.config.type = "dict"
            /\ Get(now.config.items, "tgchannel") = Get(run.config, "tgchannel")


(***************************************************************************)
(* Termination of a batch                                                  *)
(***************************************************************************)

\* every submitted probe has returned and every permit is back
BatchTerminated ==
    /\ pool.fn # "none"
    /\ pool.waiting = 0
    /\ InFlight = 0
    /\ pool.finished = semaphore_of(pool.fn) + ExtraTasks
    /\ pool.value = semaphore_of(pool.fn)

\* the permits taken are the permits of the probes inside their call
PermitsAccounted == pool.fn # "none" => pool.value + InFlight = semaphore_of(pool.fn)

\* C26: when every request comes back or times out, a batch terminates: each
\* submitted probe gets a permit, finishes and gives its permit back however
\* it returns, so at the end no permit is held and no probe is left waiting.
C26_BatchTerminates ==
    [](PermitsAccounted) /\ <>[](BatchTerminated)


(***************************************************************************)
(* Specifications                                                          *)
(***************************************************************************)

\* deduplicate_urls_by_domain and the merge of one category, on every list
SpecDedup == DedupInit /\ [][DedupNext]_vars

\* one call of sub_check or of url_check_valid
SpecProbe == ProbeInit /\ [][ProbeNext]_vars

\* one batch of semaphore_of(fn) + ExtraTasks probes
SpecPool == PoolInit /\ [][PoolNext]_vars

\* a run of main over one config.yaml
Spec == RunInit /\ [][RunNext]_vars

\* sub_check on one 200 response
SpecClassify == ClassifyInit /\ [][ClassifyRespond]_vars

\* a batch in which every request comes back, every backoff ends and the event
\* loop runs every task that can run
SpecPoolFair ==
    PoolInit /\ [][PoolNext]_vars
    /\ WF_vars(PoolAcquire) /\ WF_vars(PoolRespond) /\ WF_vars(PoolWake)
    /\ WF_vars(PoolRaise) /\ WF_vars(PoolCancel)

====
